---- MODULE Spec2Model ----
(***************************************************************************)
(* Verification model of github.com/liran/mongo: the cursor-chaining       *)
(* iteration of Model.ListByCursor, the Database.Txn entry point, the      *)
(* Set/Update/Get/Del document lifecycle of the collection accessor, its   *)
(* Pagination and Next page fetches, Database.Indexes, and the tag and     *)
(* struct introspection of GetID, ParseModelIndexes and ParseTag.          *)
(*                                                                         *)
(* _id values are modelled as integers ordered the way the store orders    *)
(* them: NumID (a numeric _id, which sorts before every string), then the  *)
(* strings EmptyString < 1 < 2 < ... < MaxId.                              *)
(***************************************************************************)
EXTENDS Integers, Sequences, FiniteSets, TLC

\* ---------------------------------------------------------------- bounds
MaxId == 3          \* string _id values are 1..MaxId
MaxLimit == 2       \* ListByCursor is called with limit in 0..MaxLimit
MaxWrites == 2      \* concurrent writes by other writers during one call
MaxOps == 2         \* store operations one run of a Txn function performs
MaxAttempts == 2    \* transaction attempts the driver makes within its time limit

MaxPage == 3        \* Pagination is called with page in -1..MaxPage
MaxPageSize == 2    \* Pagination and Next are called with pageSize in -1..MaxPageSize
MaxNext == 3        \* Next calls in one chain
MaxPages == 3       \* pages the page-partitioned List splits a result into
MaxConc == 2        \* concurrency limit given to the page-partitioned List
MaxCb == 2          \* callback invocations followed within one page task

\* ------------------------------------------------------ program constants
defaultListLimit == 100
nextPageSize == 10  \* the page size Next falls back to
listPageSize == 200 \* the page size of the page-partitioned List

\* ------------------------------------------------------------ id universe
NumID == -1         \* a non-string (numeric) _id
EmptyString == 0    \* the Go string ""
NoBound == -2       \* "this operator is absent from the _id clause"

StrIds == 1..MaxId
Ids == {NumID} \cup StrIds
IsStr(id) == id >= EmptyString

Range(s) == {s[i] : i \in 1..Len(s)}
MinOf(S) == CHOOSE x \in S : \A y \in S : x <= y
MaxOf(S) == CHOOSE x \in S : \A y \in S : x >= y

\* ------------------------------------------------------------------ state
VARIABLES
    coll,        \* the _id values of the documents in the listed collection
    lpc,         \* position of the ListByCursor call: idle, find, iter, done
    desc,        \* argument desc
    limit,       \* local limit (after the default is applied)
    projId,      \* TRUE unless the projection argument excludes _id
    filter,      \* the caller's filter: its _id clause
    nextFilter,  \* the working filter: its _id clause
    cursor,      \* the driver cursor of the current batch query
    last,        \* local last
    couter,      \* local couter
    delivered,   \* the _id of every document handed to cb, in call order
    lret,        \* the value ListByCursor returned
    finds,       \* number of coll.Find queries issued by the call
    writes,      \* number of writes by other writers during the call
    failed,      \* a store error happened during the call
    stopK,       \* K when cb asked to stop on its K-th invocation, else 0
    stopErr,     \* the error cb returned on that invocation
    findsAtStop, \* finds at that invocation
    frontier,    \* the furthest _id the store has returned to the call so far
    aheadClaim,  \* ids inserted during the call beyond the last delivered _id
    ahead,       \* ids inserted during the call beyond frontier
    pending,     \* ids of ahead still stored when the call next fetched
    goneClaim,   \* ids deleted during the call before they were delivered
    gone         \* ids deleted during the call before any reply returned them

listVars == <<coll, lpc, desc, limit, projId, filter, nextFilter, cursor, last,
              couter, delivered, lret, finds, writes, failed, stopK, stopErr,
              findsAtStop, frontier, aheadClaim, ahead, pending, goneClaim,
              gone>>

VARIABLES
    store,       \* the committed documents: collection -> (_id -> document)
    view,        \* what the open multi-document transaction reads and writes
    tpc,         \* position of the Txn call: idle, fn, wt, done
    multiArg,    \* the variadic multiDoc argument of Txn
    ctx,         \* Txn.ctx handed to the function: "plain" or "session"
    calls,       \* number of times the caller's function was invoked
    attempts,    \* number of transaction attempts WithTransaction started
    nops,        \* store operations of the current run of the function
    opErr,       \* the last store error an operation of the function got
    fnRet,       \* what the last run of the function returned
    firstFnRet,  \* what the first run of the function returned
    tret,        \* what Txn returned
    pre,         \* store when Txn was called
    wlog,        \* the writes the last run of the function completed
    sessFailed,  \* StartSession returned an error
    commitFailed,\* the commit reported an error
    transients,  \* errors labelled TransientTransactionError the store reported
    res,         \* the result of the last Get / Unmarshal
    hist         \* per _id, the last successful Set or Del

txnVars == <<store, view, tpc, multiArg, ctx, calls, attempts, nops, opErr,
             fnRet, firstFnRet, tret, pre, wlog, sessFailed, commitFailed,
             transients, res, hist>>

VARIABLES
    indexes,     \* the indexes that exist on the user collection
    before,      \* the user collection when the last call, a Set / Update, began
    arg,         \* the entity handed to the last call, a Set / Update
    storeCalls,  \* store requests the last accessor call issued
    pg,          \* the last Pagination call: arguments, options and result
    nx,          \* the running chain of Next calls
    ix,          \* the last Database.Indexes call and the one before it
    minp,        \* the input of an introspection function
    mout,        \* what the introspection function returned for it
    par          \* the running page-partitioned List call and its page tasks

extVars == <<indexes, before, arg, storeCalls, pg, nx, ix, minp, mout, par>>

vars == <<listVars, txnVars, extVars>>

\* --------------------------------------------------------------- the store
NoFilter == [gt |-> NoBound, lt |-> NoBound]

\* Does a document with this _id satisfy the _id clause f?  $gt and $lt only
\* match values of the operand's type, and every operand here is a string.
Matches(id, f) ==
    /\ f.gt = NoBound \/ (IsStr(id) /\ id > f.gt)
    /\ f.lt = NoBound \/ (IsStr(id) /\ id < f.lt)

\* Is id after position pos in a scan sorted by {_id: 1} or {_id: -1}?
Beyond(id, pos, d) == pos = NoBound \/ (IF d THEN id < pos ELSE id > pos)

RECURSIVE SortIds(_, _)
SortIds(S, d) ==
    IF S = {} THEN <<>>
    ELSE LET x == IF d THEN MaxOf(S) ELSE MinOf(S)
         IN <<x>> \o SortIds(S \ {x}, d)

\* What a find (or a getMore on its cursor) can still return: the matching
\* documents after the scan position, in sort order.
Candidates(c, f, d, pos) ==
    SortIds({id \in c : Matches(id, f) /\ Beyond(id, pos, d)}, d)

ClosedCursor == [buf |-> <<>>, pos |-> NoBound, left |-> 0, open |-> FALSE]

\* The replies the store may give to a find/getMore whose scan is at pos with
\* `left` documents of the limit still to return: any non-empty prefix of the
\* candidates.  The cursor is closed once the limit is reached, stays open
\* while candidates remain, and otherwise the store may or may not already
\* report the scan exhausted.
Replies(c, f, d, pos, left) ==
    LET cand == Candidates(c, f, d, pos)
        n == IF Len(cand) < left THEN Len(cand) ELSE left
        all == {[buf |-> SubSeq(cand, 1, r), pos |-> cand[r],
                 left |-> left - r, open |-> o] : r \in 1..n, o \in BOOLEAN}
    IN IF n = 0
       THEN {[buf |-> <<>>, pos |-> pos, left |-> left, open |-> FALSE]}
       ELSE {rep \in all : /\ rep.left = 0 => ~rep.open
                           /\ Len(rep.buf) < n => rep.open}

\* ------------------------------------------------- Model.ListByCursor code
\* limit < 1 falls back to defaultListLimit
EffLimit(lim) == IF lim < 1 THEN defaultListLimit ELSE lim

\* cmpOp: "$lt" when desc, "$gt" otherwise; the sort is {_id: -1} or {_id: 1}
CmpOp(d) == IF d THEN "$lt" ELSE "$gt"

\* id.(string): the string value, or "" when the _id is not a string
IdString(id) == IF IsStr(id) THEN id ELSE EmptyString

\* m.Get("_id") after the projection was applied; last keeps its value when
\* the decoded document has no _id
LastAfter(l, id, proj) == IF proj THEN IdString(id) ELSE l

CbStopsIgnoresErr(r) == ~r.ok

\* if ok, err := cb(m); err != nil || !ok { return false, err }
CbStops(r) == r.err /= "nil" \/ ~r.ok

ContinuesOffByOne(l, c, lim) == ~(l = EmptyString \/ c <= lim)
ContinuesWhileLast(l, c, lim) == l /= EmptyString

\* if last == "" || couter < limit { return false, nil }
Continues(l, c, lim) == ~(l = EmptyString \/ c < lim)

NextFilterAlwaysGt(nf, d, l) == [gt |-> l, lt |-> NoBound]

\* nextFilter.Set("_id", next.Set(cmpOp, last)): the _id clause of the working
\* filter is replaced by the map next, which holds only cmpOp
NextFilterAfter(nf, d, l) ==
    IF CmpOp(d) = "$lt" THEN [gt |-> NoBound, lt |-> l]
    ELSE [gt |-> l, lt |-> NoBound]

CbRets == [ok : BOOLEAN, err : {"nil", "cbErr"}]
IdBounds == {NoBound, 2}
Filters == [gt : IdBounds, lt : IdBounds]

InCall == lpc \in {"find", "iter"}
LastDelivered ==
    IF delivered = <<>> THEN NoBound ELSE delivered[Len(delivered)]

ListInit ==
    /\ coll \in SUBSET Ids
    /\ lpc = "idle"
    /\ desc = FALSE
    /\ limit = 0
    /\ projId = TRUE
    /\ filter = NoFilter
    /\ nextFilter = NoFilter
    /\ cursor = ClosedCursor
    /\ last = EmptyString
    /\ couter = 0
    /\ delivered = <<>>
    /\ lret = "none"
    /\ finds = 0
    /\ writes = 0
    /\ failed = FALSE
    /\ stopK = 0
    /\ stopErr = "nil"
    /\ findsAtStop = 0
    /\ frontier = NoBound
    /\ aheadClaim = {}
    /\ ahead = {}
    /\ pending = {}
    /\ goneClaim = {}
    /\ gone = {}

ghostVars == <<frontier, aheadClaim, ahead, pending, goneClaim, gone>>
stopVars == <<stopK, stopErr, findsAtStop>>

\* ListByCursor up to its first query: clone the filter, default the limit
ListByCursor(f, d, lim, proj) ==
    /\ lpc = "idle"
    /\ filter' = f
    /\ nextFilter' = f
    /\ desc' = d
    /\ limit' = EffLimit(lim)
    /\ projId' = proj
    /\ lpc' = "find"
    /\ UNCHANGED <<coll, cursor, last, couter, delivered, lret, finds, writes,
                   failed, stopVars, ghostVars>>
    /\ UNCHANGED <<txnVars, extVars>>

\* List: ascending, defaultListLimit
List(f, proj) == ListByCursor(f, FALSE, defaultListLimit, proj)

\* ListDescending: descending, defaultListLimit
ListDescending(f, proj) == ListByCursor(f, TRUE, defaultListLimit, proj)

\* The store answered a find or a getMore with rep
Fetched(rep) ==
    /\ cursor' = rep
    /\ frontier' = IF rep.buf = <<>> THEN frontier ELSE rep.pos
    /\ pending' = pending \cup (ahead \cap coll)
    /\ UNCHANGED <<aheadClaim, ahead, goneClaim, gone>>

\* cursor, err := m.coll.Find(ctx, nextFilter, opt); last := ""; couter := 0
Find ==
    /\ lpc = "find"
    /\ \E rep \in Replies(coll, nextFilter, desc, NoBound, limit) : Fetched(rep)
    /\ last' = EmptyString
    /\ couter' = 0
    /\ finds' = finds + 1
    /\ lpc' = "iter"
    /\ UNCHANGED <<coll, desc, limit, projId, filter, nextFilter, delivered,
                   lret, writes, failed, stopVars>>
    /\ UNCHANGED <<txnVars, extVars>>

\* Find returned an error: ListByCursor returns it
FindError ==
    /\ lpc = "find"
    /\ finds' = finds + 1
    /\ failed' = TRUE
    /\ lret' = "storeErr"
    /\ lpc' = "done"
    /\ UNCHANGED <<coll, desc, limit, projId, filter, nextFilter, cursor, last,
                   couter, delivered, writes, stopVars, ghostVars>>
    /\ UNCHANGED <<txnVars, extVars>>

\* cursor.Next with an empty buffer and an open cursor asks the store for more
GetMore ==
    /\ lpc = "iter"
    /\ cursor.buf = <<>>
    /\ cursor.open
    /\ \E rep \in Replies(coll, nextFilter, desc, cursor.pos, cursor.left) :
           Fetched(rep)
    /\ UNCHANGED <<coll, lpc, desc, limit, projId, filter, nextFilter, last,
                   couter, delivered, lret, finds, writes, failed, stopVars>>
    /\ UNCHANGED <<txnVars, extVars>>

\* ... and the store fails: cursor.Next returns false, cursor.Err is not read
GetMoreError ==
    /\ lpc = "iter"
    /\ cursor.buf = <<>>
    /\ cursor.open
    /\ cursor' = [cursor EXCEPT !.open = FALSE]
    /\ failed' = TRUE
    /\ UNCHANGED <<coll, lpc, desc, limit, projId, filter, nextFilter, last,
                   couter, delivered, lret, finds, writes, stopVars, ghostVars>>
    /\ UNCHANGED <<txnVars, extVars>>

\* cursor.Next with a buffered document: decode it, call cb, then either stop
\* with cb's error or record last and count the document
Deliver(r) ==
    /\ lpc = "iter"
    /\ cursor.buf /= <<>>
    /\ LET id == Head(cursor.buf) IN
        /\ cursor' = [cursor EXCEPT !.buf = Tail(cursor.buf)]
        /\ delivered' = Append(delivered, id)
        /\ IF CbStops(r)
           THEN /\ lret' = r.err
                /\ lpc' = "done"
                /\ UNCHANGED <<last, couter>>
           ELSE /\ last' = LastAfter(last, id, projId)
                /\ couter' = couter + 1
                /\ UNCHANGED <<lret, lpc>>
        /\ IF stopK = 0 /\ (~r.ok \/ r.err /= "nil")
           THEN /\ stopK' = Len(delivered) + 1
                /\ stopErr' = r.err
                /\ findsAtStop' = finds
           ELSE UNCHANGED stopVars
    /\ UNCHANGED <<coll, desc, limit, projId, filter, nextFilter, finds,
                   writes, failed, ghostVars>>
    /\ UNCHANGED <<txnVars, extVars>>

\* the cursor is exhausted: return nil, or move the _id bound and query again
EndBatch ==
    /\ lpc = "iter"
    /\ cursor.buf = <<>>
    /\ ~cursor.open
    /\ IF Continues(last, couter, limit)
       THEN /\ nextFilter' = NextFilterAfter(nextFilter, desc, last)
            /\ lpc' = "find"
            /\ lret' = lret
       ELSE /\ lret' = "nil"
            /\ lpc' = "done"
            /\ nextFilter' = nextFilter
    /\ UNCHANGED <<coll, desc, limit, projId, filter, cursor, last, couter,
                   delivered, finds, writes, failed, stopVars, ghostVars>>
    /\ UNCHANGED <<txnVars, extVars>>

\* Another writer stores a new document (Model.Set, an upsert by _id)
Insert(id) ==
    /\ InCall
    /\ writes < MaxWrites
    /\ id \notin coll
    /\ coll' = coll \cup {id}
    /\ writes' = writes + 1
    /\ aheadClaim' = IF Beyond(id, LastDelivered, desc)
                     THEN aheadClaim \cup {id} ELSE aheadClaim
    /\ ahead' = IF Beyond(id, frontier, desc) THEN ahead \cup {id} ELSE ahead
    /\ goneClaim' = goneClaim \ {id}
    /\ gone' = gone \ {id}
    /\ UNCHANGED <<lpc, desc, limit, projId, filter, nextFilter, cursor, last,
                   couter, delivered, lret, finds, failed, stopVars, frontier,
                   pending>>
    /\ UNCHANGED <<txnVars, extVars>>

\* Another writer deletes a document (Model.Del)
Delete(id) ==
    /\ InCall
    /\ writes < MaxWrites
    /\ id \in coll
    /\ coll' = coll \ {id}
    /\ writes' = writes + 1
    /\ aheadClaim' = aheadClaim \ {id}
    /\ ahead' = ahead \ {id}
    /\ pending' = IF id \in Range(cursor.buf) THEN pending ELSE pending \ {id}
    /\ goneClaim' = IF id \in Range(delivered)
                    THEN goneClaim ELSE goneClaim \cup {id}
    /\ gone' = IF id \in Range(delivered) \cup Range(cursor.buf)
               THEN gone ELSE gone \cup {id}
    /\ UNCHANGED <<lpc, desc, limit, projId, filter, nextFilter, cursor, last,
                   couter, delivered, lret, finds, failed, stopVars, frontier>>
    /\ UNCHANGED <<txnVars, extVars>>

ListNext ==
    \/ \E f \in Filters, d \in BOOLEAN, lim \in 0..MaxLimit, proj \in BOOLEAN :
           ListByCursor(f, d, lim, proj)
    \/ \E f \in Filters, proj \in BOOLEAN : List(f, proj)
    \/ \E f \in Filters, proj \in BOOLEAN : ListDescending(f, proj)
    \/ Find
    \/ FindError
    \/ GetMore
    \/ GetMoreError
    \/ \E r \in CbRets : Deliver(r)
    \/ EndBatch
    \/ \E id \in Ids : Insert(id)
    \/ \E id \in Ids : Delete(id)

\* ------------------------------------------------ documents and entities
NilID == "<nil>"    \* GetID found no primary key
Colls == {"user", "job"}
DocKeys == {"_id", "name", "order_count"}

\* struct { ID string `bson:"_id"`; Name string;
\*          OrderCount string `bson:"order_count,omitempty"` }
Entity(id, name, oc) == [ID |-> id, Name |-> name, OrderCount |-> oc]

\* GetID: the value of the field tagged bson:"_id"
GetID(e) == e.ID

NoIDNilOnly(id) == id = NilID

\* id == nil || id == ""
NoID(id) == id = NilID \/ id = ""

\* GetIDFilter(id) = {_id: id}: does the collection hold a matching document?
HasDoc(c, id) == id \in DOMAIN c

\* bson.Marshal of the entity: omitempty drops an empty OrderCount, and an
\* entity without a primary key has no _id
Marshal(e) ==
    LET keys == {k \in DocKeys :
                    /\ k = "_id" => e.ID /= NilID
                    /\ k = "order_count" => e.OrderCount /= ""}
    IN [k \in keys |-> IF k = "_id" THEN e.ID
                       ELSE IF k = "name" THEN e.Name ELSE e.OrderCount]

\* res.Decode(model): the document's fields overwrite the target's, a field
\* the document lacks keeps the target's value
Decode(doc, t) ==
    [ID |-> IF "_id" \in DOMAIN doc THEN doc["_id"] ELSE t.ID,
     Name |-> IF "name" \in DOMAIN doc THEN doc["name"] ELSE t.Name,
     OrderCount |-> IF "order_count" \in DOMAIN doc THEN doc["order_count"]
                    ELSE t.OrderCount]

NoDoc == [k \in {} |-> ""]
EmptyColl == [k \in {} |-> NoDoc]
ZeroEntity == Entity("", "", "")

\* ReplaceOne(GetIDFilter(id), model, upsert): replace or insert the document
Upsert(c, id, doc) ==
    [k \in DOMAIN c \cup {id} |-> IF k = id THEN doc ELSE c[k]]

\* an index of a collection: its key fields in order, its unique option and
\* its name
Index(keys, unique, name) == [keys |-> keys, unique |-> unique, name |-> name]

\* the value a document has for an index key: a missing field indexes as null
KeyValue(doc, k) == IF k \in DOMAIN doc THEN doc[k] ELSE "<null>"

\* would storing doc under id break a unique index of the collection?
Collides(c, ixs, id, doc) ==
    \E x \in ixs, id2 \in DOMAIN c \ {id} :
        /\ x.unique
        /\ \A i \in 1..Len(x.keys) :
               KeyValue(doc, x.keys[i]) = KeyValue(c[id2], x.keys[i])

\* the errors of the store: the driver's error type, the codes of its write
\* errors and the marks its lower-cased message contains
NoError == [type |-> "nil", codes |-> {}, text |-> {}]
DupKeyWriteError ==
    [type |-> "WriteException", codes |-> {11000},
     text |-> {"e11000", "duplicate key", "index:", "dup key"}]
DupKeyCommandError ==
    [type |-> "CommandError", codes |-> {},
     text |-> {"e11000", "duplicate key", "index:", "dup key"}]

IsDuplicateKeyErrorBulkOnly(err) ==
    err.type = "BulkWriteException" /\ 11000 \in err.codes

\* isDuplicateKeyError
IsDuplicateKeyError(err) ==
    /\ err /= NoError
    /\ \/ err.type = "WriteException" /\ 11000 \in err.codes
       \/ err.type = "BulkWriteException" /\ 11000 \in err.codes
       \/ "duplicate key" \in err.text
       \/ "e11000" \in err.text
       \/ "index:" \in err.text /\ "dup key" \in err.text

\* if err != nil && isDuplicateKeyError(err) { return ErrDuplicateKey };
\* return err
Translate(err) ==
    IF err = NoError THEN "nil"
    ELSE IF IsDuplicateKeyError(err) THEN "ErrDuplicateKey"
    ELSE "storeErr"

\* ReplaceOne(GetIDFilter(id), doc, upsert) on a collection with indexes ixs
ReplaceOne(c, ixs, id, doc) ==
    IF Collides(c, ixs, id, doc) THEN [err |-> DupKeyWriteError, coll |-> c]
    ELSE [err |-> NoError, coll |-> Upsert(c, id, doc)]

\* the update {$set: fields} applied to a document
SetFields(doc, fields) ==
    [k \in DOMAIN doc \cup DOMAIN fields |->
        IF k \in DOMAIN fields THEN fields[k] ELSE doc[k]]

\* FindOneAndUpdate(GetIDFilter(id), {$set: fields}): the document as it was
\* before the update is returned
FindOneAndUpdate(c, ixs, id, fields) ==
    IF ~HasDoc(c, id)
    THEN [found |-> FALSE, err |-> NoError, old |-> NoDoc, coll |-> c]
    ELSE IF Collides(c, ixs, id, SetFields(c[id], fields))
    THEN [found |-> TRUE, err |-> DupKeyCommandError, old |-> NoDoc, coll |-> c]
    ELSE [found |-> TRUE, err |-> NoError, old |-> c[id],
          coll |-> [c EXCEPT ![id] = SetFields(c[id], fields)]]

ModelDelKeepsDoc(c, id) == [err |-> "nil", coll |-> c]

\* Model.Set on a collection with indexes ixs; calls counts the requests
\* sent to the store
ModelSetIx(c, ixs, e) ==
    IF NoID(GetID(e)) THEN [err |-> "ErrNoID", coll |-> c, calls |-> 0]
    ELSE LET r == ReplaceOne(c, ixs, GetID(e), Marshal(e))
         IN [err |-> Translate(r.err), coll |-> r.coll, calls |-> 1]

\* Model.Set
ModelSet(c, e) ==
    IF NoID(GetID(e)) THEN [err |-> "ErrNoID", coll |-> c]
    ELSE [err |-> "nil", coll |-> Upsert(c, GetID(e), Marshal(e))]

\* for k, v := range updateMap { old.Set(k, v) }
Overlay(old, updateMap) ==
    [k \in DOMAIN old \cup DOMAIN updateMap |->
        IF k \in DOMAIN updateMap THEN updateMap[k] ELSE old[k]]

ModelUpdateReturnsOld(c, ixs, e) ==
    IF NoID(GetID(e))
    THEN [err |-> "ErrNoID", doc |-> NoDoc, coll |-> c, calls |-> 0]
    ELSE LET r == FindOneAndUpdate(c, ixs, GetID(e), Marshal(e))
         IN IF ~r.found
            THEN [err |-> "ErrRecordNotFound", doc |-> NoDoc, coll |-> c,
                  calls |-> 1]
            ELSE IF r.err /= NoError
            THEN [err |-> Translate(r.err), doc |-> NoDoc, coll |-> c,
                  calls |-> 1]
            ELSE [err |-> "nil", doc |-> r.old, coll |-> r.coll, calls |-> 1]

\* Model.Update: updateMap is the patch marshalled and unmarshalled into a
\* map; the previous document overlaid with it is returned
ModelUpdate(c, ixs, e) ==
    IF NoID(GetID(e))
    THEN [err |-> "ErrNoID", doc |-> NoDoc, coll |-> c, calls |-> 0]
    ELSE LET updateMap == Marshal(e)
             r == FindOneAndUpdate(c, ixs, GetID(e), updateMap)
         IN IF ~r.found
            THEN [err |-> "ErrRecordNotFound", doc |-> NoDoc, coll |-> c,
                  calls |-> 1]
            ELSE IF r.err /= NoError
            THEN [err |-> Translate(r.err), doc |-> NoDoc, coll |-> c,
                  calls |-> 1]
            ELSE [err |-> "nil", doc |-> Overlay(r.old, updateMap),
                  coll |-> r.coll, calls |-> 1]

\* Model.Del: DeleteOne(GetIDFilter(id)); deleting a missing id is no error
ModelDel(c, id) ==
    [err |-> "nil", coll |-> [k \in DOMAIN c \ {id} |-> c[k]]]

\* Model.Get
ModelGet(c, id) ==
    IF HasDoc(c, id) THEN [err |-> "nil", doc |-> c[id]]
    ELSE [err |-> "ErrRecordNotFound", doc |-> NoDoc]

\* Model.Unmarshal
ModelUnmarshal(c, id, t) ==
    IF HasDoc(c, id) THEN [err |-> "nil", model |-> Decode(c[id], t)]
    ELSE [err |-> "ErrRecordNotFound", model |-> t]

NoRes == [op |-> "none", coll |-> "user", id |-> "", err |-> "nil",
          doc |-> NoDoc, model |-> ZeroEntity]
NoHist == [kind |-> "none", e |-> ZeroEntity]
CrudIds == {NilID, "", "a", "b"}
CrudEntities ==
    {Entity(id, n, oc) : id \in CrudIds, n \in {"x", "y"}, oc \in {"", "1"}}

\* ------------------------------------------------------------ Database.Txn
TxnIds == {"", "a"}
TxnEntities == {Entity(id, n, "") : id \in TxnIds, n \in {"x", "y"}}
MultiDocArgs == {<<>>, <<FALSE>>, <<TRUE>>}
StoreErrs == {"storeErr", "transientErr"}

IsMultiDocAnyArg(args) == Len(args) > 0

\* len(multiDoc) > 0 && multiDoc[0]
IsMultiDoc(args) == Len(args) > 0 /\ args[1]

TxnCtxAlwaysPlain(multi) == "plain"

\* &Txn{ctx: sc, db: d} inside WithTransaction, &Txn{ctx: ctx, db: d} otherwise
TxnCtx(multi) == IF multi THEN "session" ELSE "plain"

LayerRetriesOnError(err) == err /= "nil"

\* _, err = session.WithTransaction(...); return err: the result is returned
\* as it is, Txn has no retry loop of its own
LayerRetries(err) == FALSE

\* The writes of a log applied, in order, to a store
RECURSIVE Apply(_, _)
Apply(st, log) ==
    IF log = <<>> THEN st
    ELSE LET w == Head(log)
             c == st[w.coll]
             c2 == IF w.op = "Set" THEN ModelSet(c, w.e).coll
                   ELSE ModelDel(c, w.id).coll
         IN Apply([st EXCEPT ![w.coll] = c2], Tail(log))

TxnIdle ==
    /\ store = [c \in Colls |-> EmptyColl]
    /\ view = [c \in Colls |-> EmptyColl]
    /\ tpc = "idle"
    /\ multiArg = <<>>
    /\ ctx = "plain"
    /\ calls = 0
    /\ attempts = 0
    /\ nops = 0
    /\ opErr = "nil"
    /\ fnRet = "none"
    /\ firstFnRet = "none"
    /\ tret = "none"
    /\ pre = [c \in Colls |-> EmptyColl]
    /\ wlog = <<>>
    /\ sessFailed = FALSE
    /\ commitFailed = FALSE
    /\ transients = 0
    /\ res = NoRes
    /\ hist = [id \in CrudIds |-> NoHist]

\* before a Txn call the store holds documents earlier Set calls left
TxnInit ==
    /\ store \in [Colls -> {EmptyColl} \cup
                    {Upsert(EmptyColl, GetID(e), Marshal(e)) :
                        e \in {x \in TxnEntities : ~NoID(GetID(x))}}]
    /\ view = store
    /\ pre = store
    /\ tpc = "idle"
    /\ multiArg = <<>>
    /\ ctx = "plain"
    /\ calls = 0
    /\ attempts = 0
    /\ nops = 0
    /\ opErr = "nil"
    /\ fnRet = "none"
    /\ firstFnRet = "none"
    /\ tret = "none"
    /\ wlog = <<>>
    /\ sessFailed = FALSE
    /\ commitFailed = FALSE
    /\ transients = 0
    /\ res = NoRes
    /\ hist = [id \in CrudIds |-> NoHist]

\* The documents the function's operations act on: those of the open
\* transaction when its context is the session, the committed ones otherwise
Seen == IF ctx = "session" THEN view ELSE store

\* An operation of the function replaces collection c by c2
Writes(c, c2) ==
    IF ctx = "session"
    THEN /\ view' = [view EXCEPT ![c] = c2]
         /\ store' = store
    ELSE /\ store' = [store EXCEPT ![c] = c2]
         /\ view' = view

\* WithTransaction starts a transaction and runs the callback, which invokes
\* the function once
BeginAttempt ==
    /\ view' = store'
    /\ attempts' = attempts + 1
    /\ calls' = calls + 1
    /\ nops' = 0
    /\ opErr' = "nil"
    /\ wlog' = <<>>
    /\ tpc' = "fn"

\* Txn returns err
Return(err) ==
    IF LayerRetries(err) /\ attempts < MaxAttempts
    THEN /\ BeginAttempt
         /\ UNCHANGED tret
    ELSE /\ tret' = err
         /\ tpc' = "done"
         /\ view' = store'
         /\ UNCHANGED <<attempts, calls, nops, opErr, wlog>>

\* Database.Txn up to the first run of the function
Txn(args, sessOk) ==
    /\ tpc = "idle"
    /\ multiArg' = args
    /\ pre' = store
    /\ ctx' = TxnCtx(IsMultiDoc(args))
    /\ fnRet' = "none"
    /\ firstFnRet' = "none"
    /\ commitFailed' = FALSE
    /\ transients' = 0
    /\ res' = NoRes
    /\ IF IsMultiDoc(args) /\ ~sessOk
       THEN /\ sessFailed' = TRUE
            /\ tret' = "sessErr"
            /\ tpc' = "done"
            /\ calls' = 0
            /\ attempts' = 0
            /\ UNCHANGED <<view, nops, opErr, wlog>>
       ELSE /\ sessFailed' = FALSE
            /\ tret' = "none"
            /\ view' = store
            /\ attempts' = IF IsMultiDoc(args) THEN 1 ELSE 0
            /\ calls' = 1
            /\ nops' = 0
            /\ opErr' = "nil"
            /\ wlog' = <<>>
            /\ tpc' = "fn"
    /\ UNCHANGED <<store, hist>>
    /\ UNCHANGED <<listVars, extVars>>

InFn == tpc = "fn" /\ nops < MaxOps

\* the function calls txn.Model(e).Set(e)
FnSet(c, e) ==
    /\ InFn
    /\ LET r == ModelSet(Seen[c], e) IN
        /\ Writes(c, r.coll)
        /\ wlog' = IF r.err = "nil"
                   THEN Append(wlog, [op |-> "Set", coll |-> c, e |-> e,
                                      id |-> GetID(e)])
                   ELSE wlog
    /\ nops' = nops + 1
    /\ res' = NoRes
    /\ UNCHANGED <<tpc, multiArg, ctx, calls, attempts, opErr, fnRet,
                   firstFnRet, tret, pre, sessFailed, commitFailed,
                   transients, hist>>
    /\ UNCHANGED <<listVars, extVars>>

\* the function calls txn.Model(c).Del(id)
FnDel(c, id) ==
    /\ InFn
    /\ Writes(c, ModelDel(Seen[c], id).coll)
    /\ wlog' = Append(wlog, [op |-> "Del", coll |-> c, e |-> ZeroEntity,
                             id |-> id])
    /\ nops' = nops + 1
    /\ res' = NoRes
    /\ UNCHANGED <<tpc, multiArg, ctx, calls, attempts, opErr, fnRet,
                   firstFnRet, tret, pre, sessFailed, commitFailed,
                   transients, hist>>
    /\ UNCHANGED <<listVars, extVars>>

\* the function calls txn.Model(c).Get(id)
FnGet(c, id) ==
    /\ InFn
    /\ LET r == ModelGet(Seen[c], id) IN
        res' = [op |-> "Get", coll |-> c, id |-> id, err |-> r.err,
                doc |-> r.doc, model |-> ZeroEntity]
    /\ nops' = nops + 1
    /\ UNCHANGED <<store, view, tpc, multiArg, ctx, calls, attempts, opErr,
                   fnRet, firstFnRet, tret, pre, wlog, sessFailed,
                   commitFailed, transients, hist>>
    /\ UNCHANGED <<listVars, extVars>>

\* an operation of the function fails in the store and changes nothing
FnOpError(kind) ==
    /\ InFn
    /\ kind = "transientErr" => ctx = "session"
    /\ opErr' = kind
    /\ transients' = IF kind = "transientErr" THEN transients + 1
                     ELSE transients
    /\ nops' = nops + 1
    /\ UNCHANGED <<store, view, tpc, multiArg, ctx, calls, attempts, fnRet,
                   firstFnRet, tret, pre, wlog, sessFailed, commitFailed, res,
                   hist>>
    /\ UNCHANGED <<listVars, extVars>>

\* the function returns nil, an error of its own, or the store error it got;
\* a plain Txn returns that value, a sessioned one hands it to WithTransaction
FnReturn(err) ==
    /\ tpc = "fn"
    /\ err \in {"nil", "fnErr"} \cup ({opErr} \ {"nil"})
    /\ fnRet' = err
    /\ firstFnRet' = IF firstFnRet = "none" THEN err ELSE firstFnRet
    /\ IF IsMultiDoc(multiArg)
       THEN /\ tpc' = "wt"
            /\ UNCHANGED <<tret, view, store, attempts, calls, nops, opErr,
                           wlog>>
       ELSE /\ tret' = err
            /\ tpc' = "done"
            /\ UNCHANGED <<view, store, attempts, calls, nops, opErr, wlog>>
    /\ UNCHANGED <<multiArg, ctx, pre, sessFailed, commitFailed, transients,
                   res, hist>>
    /\ UNCHANGED <<listVars, extVars>>

\* WithTransaction: the callback returned an error; abort and return it
WtAbort ==
    /\ tpc = "wt"
    /\ fnRet /= "nil"
    /\ store' = store
    /\ Return(fnRet)
    /\ UNCHANGED <<multiArg, ctx, fnRet, firstFnRet, pre, sessFailed,
                   commitFailed, transients, res, hist>>
    /\ UNCHANGED <<listVars, extVars>>

\* WithTransaction: the callback's error is labelled transient and time is
\* left; abort, start a new transaction and run the callback again
WtRetry ==
    /\ tpc = "wt"
    /\ fnRet = "transientErr"
    /\ attempts < MaxAttempts
    /\ store' = store
    /\ BeginAttempt
    /\ UNCHANGED <<multiArg, ctx, fnRet, firstFnRet, tret, pre, sessFailed,
                   commitFailed, transients, res, hist>>
    /\ UNCHANGED <<listVars, extVars>>

\* WithTransaction: the callback returned nil and the commit succeeds
WtCommit ==
    /\ tpc = "wt"
    /\ fnRet = "nil"
    /\ store' = view
    /\ Return("nil")
    /\ UNCHANGED <<multiArg, ctx, fnRet, firstFnRet, pre, sessFailed,
                   commitFailed, transients, res, hist>>
    /\ UNCHANGED <<listVars, extVars>>

\* WithTransaction: the commit reports an error; the writes are then either
\* all applied (the acknowledgement was lost) or all discarded
WtCommitError(applied) ==
    /\ tpc = "wt"
    /\ fnRet = "nil"
    /\ store' = IF applied THEN view ELSE store
    /\ commitFailed' = TRUE
    /\ Return("commitErr")
    /\ UNCHANGED <<multiArg, ctx, fnRet, firstFnRet, pre, sessFailed,
                   transients, res, hist>>
    /\ UNCHANGED <<listVars, extVars>>

\* WithTransaction: the commit fails with a transient error and time is left;
\* the whole transaction is run again
WtCommitRetry ==
    /\ tpc = "wt"
    /\ fnRet = "nil"
    /\ attempts < MaxAttempts
    /\ store' = store
    /\ transients' = transients + 1
    /\ BeginAttempt
    /\ UNCHANGED <<multiArg, ctx, fnRet, firstFnRet, tret, pre, sessFailed,
                   commitFailed, res, hist>>
    /\ UNCHANGED <<listVars, extVars>>

TxnNext ==
    \/ \E args \in MultiDocArgs, sessOk \in BOOLEAN : Txn(args, sessOk)
    \/ \E c \in Colls, e \in TxnEntities : FnSet(c, e)
    \/ \E c \in Colls, id \in TxnIds : FnDel(c, id)
    \/ \E c \in Colls, id \in TxnIds : FnGet(c, id)
    \/ \E kind \in StoreErrs : FnOpError(kind)
    \/ \E err \in {"nil", "fnErr"} \cup StoreErrs : FnReturn(err)
    \/ WtAbort
    \/ WtRetry
    \/ WtCommit
    \/ \E applied \in BOOLEAN : WtCommitError(applied)
    \/ WtCommitRetry

\* ------------------------------------- Set / Del / Get / Unmarshal by _id
crudFrame == <<view, tpc, multiArg, ctx, calls, attempts, nops, opErr, fnRet,
               firstFnRet, tret, pre, wlog, sessFailed, commitFailed,
               transients>>
crudRest == <<indexes, pg, nx, ix, minp, mout, par>>

\* Model.Set(e) on the user collection
Set(e) ==
    /\ LET r == ModelSetIx(store["user"], indexes, e) IN
        /\ store' = [store EXCEPT !["user"] = r.coll]
        /\ hist' = IF r.err = "nil"
                   THEN [hist EXCEPT ![GetID(e)] = [kind |-> "set", e |-> e]]
                   ELSE hist
        /\ res' = [NoRes EXCEPT !.op = "Set", !.id = GetID(e), !.err = r.err]
        /\ storeCalls' = r.calls
    /\ before' = store["user"]
    /\ arg' = e
    /\ UNCHANGED <<crudFrame, crudRest>>
    /\ UNCHANGED listVars

\* Model.Update(e) on the user collection
Update(e) ==
    /\ LET r == ModelUpdate(store["user"], indexes, e) IN
        /\ store' = [store EXCEPT !["user"] = r.coll]
        /\ hist' = IF r.err = "nil"
                   THEN [hist EXCEPT ![GetID(e)] =
                            [kind |-> "set",
                             e |-> Decode(r.coll[GetID(e)], ZeroEntity)]]
                   ELSE hist
        /\ res' = [NoRes EXCEPT !.op = "Update", !.id = GetID(e),
                                !.err = r.err, !.doc = r.doc]
        /\ storeCalls' = r.calls
    /\ before' = store["user"]
    /\ arg' = e
    /\ UNCHANGED <<crudFrame, crudRest>>
    /\ UNCHANGED listVars

\* Model.Del(id) on the user collection
Del(id) ==
    /\ store' = [store EXCEPT !["user"] = ModelDel(store["user"], id).coll]
    /\ hist' = [hist EXCEPT ![id] = [kind |-> "del", e |-> ZeroEntity]]
    /\ res' = [NoRes EXCEPT !.op = "Del"]
    /\ storeCalls' = 1
    /\ before' = EmptyColl
    /\ arg' = ZeroEntity
    /\ UNCHANGED <<crudFrame, crudRest>>
    /\ UNCHANGED listVars

\* Model.Get(id) on the user collection
Get(id) ==
    /\ LET r == ModelGet(store["user"], id) IN
        res' = [op |-> "Get", coll |-> "user", id |-> id, err |-> r.err,
                doc |-> r.doc, model |-> ZeroEntity]
    /\ storeCalls' = 1
    /\ before' = EmptyColl
    /\ arg' = ZeroEntity
    /\ UNCHANGED <<store, hist, crudFrame, crudRest>>
    /\ UNCHANGED listVars

\* Model.Unmarshal(id, t) on the user collection
Unmarshal(id, t) ==
    /\ LET r == ModelUnmarshal(store["user"], id, t) IN
        res' = [op |-> "Unmarshal", coll |-> "user", id |-> id, err |-> r.err,
                doc |-> NoDoc, model |-> r.model]
    /\ storeCalls' = 1
    /\ before' = EmptyColl
    /\ arg' = ZeroEntity
    /\ UNCHANGED <<store, hist, crudFrame, crudRest>>
    /\ UNCHANGED listVars

CrudNext ==
    \/ \E e \in CrudEntities : Set(e)
    \/ \E e \in CrudEntities : Update(e)
    \/ \E id \in CrudIds : Del(id)
    \/ \E id \in CrudIds : Get(id)
    \/ \E id \in CrudIds, t \in {ZeroEntity, Entity("b", "y", "1")} :
           Unmarshal(id, t)

\* ------------------------------------------------------------- tag parser
MaxTokens == 3      \* comma-separated tokens in one db tag
MaxFields == 3      \* fields declared by one struct

\* a db tag is the sequence of its comma-separated tokens; a token is the key
\* as written and the value after "=" ("" when there is none or it is empty)
Token(k, v) == [k |-> k, v |-> v]

\* strings.ToLower(strings.TrimSpace(arr[0])) on the key spellings used here
ToLower(k) ==
    CASE k \in {"pk", "PK"} -> "pk"
      [] k \in {"unique", "Unique"} -> "unique"
      [] k \in {"index", "INDEX"} -> "index"
      [] OTHER -> k

TagInfo(u, un, i, ixn, pk) ==
    [Unique |-> u, UniqueName |-> un, Index |-> i, IndexName |-> ixn,
     PrimaryKey |-> pk]

\* info := TagInfo{}
ZeroTagInfo == TagInfo(FALSE, "", FALSE, "", FALSE)

ParseTokenCaseSensitive(info, t) ==
    CASE t.k = "unique" -> [info EXCEPT !.Unique = TRUE, !.UniqueName = t.v]
      [] t.k = "index" -> [info EXCEPT !.Index = TRUE, !.IndexName = t.v]
      [] t.k = "pk" -> [info EXCEPT !.PrimaryKey = TRUE]
      [] OTHER -> info

\* one round of the loop of ParseTag: the switch on the lower-cased key; an
\* empty key and an unknown key change nothing
ParseToken(info, t) ==
    LET k == ToLower(t.k) IN
    CASE k = "unique" -> [info EXCEPT !.Unique = TRUE, !.UniqueName = t.v]
      [] k = "index" -> [info EXCEPT !.Index = TRUE, !.IndexName = t.v]
      [] k = "pk" -> [info EXCEPT !.PrimaryKey = TRUE]
      [] OTHER -> info

RECURSIVE ParseTagFrom(_, _)
ParseTagFrom(info, tag) ==
    IF tag = <<>> THEN info
    ELSE ParseTagFrom(ParseToken(info, Head(tag)), Tail(tag))

\* ParseTag(tag)
ParseTag(tag) == ParseTagFrom(ZeroTagInfo, tag)

\* the valid tokens: pk, unique[=name], index[=name], in two spellings each
ValidTokens ==
    {Token(k, "") : k \in {"pk", "PK"}} \cup
    {Token(k, v) : k \in {"unique", "Unique", "index", "INDEX"},
                   v \in {"", "g"}}
TagsOfLen(n) == [1..n -> ValidTokens]
Tags == UNION {TagsOfLen(n) : n \in 0..MaxTokens}

\* ---------------------------------------------------- model introspection
\* a struct value is the sequence of its exported fields in declaration
\* order; a field has its Go name, its bson and db tags, its kind, its value
\* when it is a string, and the struct it holds when it is an embedded struct
\* or a pointer (a nil pointer holds no field); the kind nil is a nil
\* pointer of which inner tells the struct type it points to
Field(name, bson, db, kind, val, inner) ==
    [name |-> name, bson |-> bson, db |-> db, kind |-> kind, val |-> val,
     inner |-> inner]

\* ToSnake on the field and type names used here
ToSnake(name) ==
    CASE name = "UID" -> "uid"
      [] name = "ID" -> "id"
      [] name = "Name" -> "name"
      [] name = "OrderCount" -> "order_count"
      [] name = "User" -> "user"
      [] OTHER -> name

\* strings.HasPrefix(bsonTag, "_id")
BsonIsID(bson) == bson \in {"_id", "_id,omitempty"}

\* strings.Trim(strings.ReplaceAll(bsonTag, "omitempty", ""), " ,")
BsonName(bson) ==
    CASE bson = "_id,omitempty" -> "_id"
      [] bson = "order_count,omitempty" -> "order_count"
      [] bson = ",omitempty" -> ""
      [] OTHER -> bson

IsNested(f) == f.kind \in {"ptr", "struct"}

GetIDStructPkFirst(s) ==
    IF \E i \in 1..Len(s) : s[i].db /= <<>> /\ ParseTag(s[i].db).PrimaryKey
    THEN s[CHOOSE i \in 1..Len(s) :
               s[i].db /= <<>> /\ ParseTag(s[i].db).PrimaryKey].val
    ELSE IF \E i \in 1..Len(s) : BsonIsID(s[i].bson)
    THEN s[CHOOSE i \in 1..Len(s) : BsonIsID(s[i].bson)].val
    ELSE NilID

\* GetID on a struct (or a pointer to one): the fields are visited once, in
\* declaration order; a field tagged db pk or with a bson tag starting with
\* _id is returned at once, an embedded struct or non-nil pointer is searched
\* at once and its result returned when it is not nil
RECURSIVE GetIDStruct(_)
GetIDStruct(s) ==
    IF s = <<>> THEN NilID
    ELSE LET f == Head(s) IN
         IF f.db /= <<>> /\ ParseTag(f.db).PrimaryKey THEN f.val
         ELSE IF f.bson /= "" /\ BsonIsID(f.bson) THEN f.val
         ELSE IF IsNested(f) /\ GetIDStruct(f.inner) /= NilID
              THEN GetIDStruct(f.inner)
         ELSE GetIDStruct(Tail(s))

\* CompoundIndex{Fields, Unique}
CompoundIndex(fields, unique) == [Fields |-> fields, Unique |-> unique]
NoIndexInfo == [g \in {} |-> CompoundIndex(<<>>, FALSE)]

\* the serialized name of a field: its bson tag without omitempty, or the
\* snake-cased Go name
IndexName(f) == IF BsonName(f.bson) = "" THEN ToSnake(f.name) ELSE BsonName(f.bson)

\* if indexInfo[g] == nil { indexInfo[g] = &CompoundIndex{unique} };
\* indexInfo[g].Fields = append(indexInfo[g].Fields, name)
AddToGroup(info, g, name, unique) ==
    [k \in DOMAIN info \cup {g} |->
        IF k /= g THEN info[k]
        ELSE IF g \in DOMAIN info
             THEN CompoundIndex(Append(info[g].Fields, name), info[g].Unique)
             ELSE CompoundIndex(<<name>>, unique)]

\* merge the index map of a nested struct: append the fields, OR the flag
MergeIndexes(info, inner) ==
    [k \in DOMAIN info \cup DOMAIN inner |->
        IF k \notin DOMAIN inner THEN info[k]
        ELSE IF k \in DOMAIN info
             THEN CompoundIndex(info[k].Fields \o inner[k].Fields,
                                info[k].Unique \/ inner[k].Unique)
             ELSE CompoundIndex(inner[k].Fields, inner[k].Unique)]

\* the part of the loop body of ParseModelIndexes for a field with a db tag
AddTagged(info, f) ==
    LET t == ParseTag(f.db)
        un == IF t.UniqueName = "" THEN IndexName(f) ELSE t.UniqueName
        ixn == IF t.IndexName = "" THEN IndexName(f) ELSE t.IndexName
        i1 == IF t.Unique THEN AddToGroup(info, un, IndexName(f), TRUE)
              ELSE info
    IN IF t.Index THEN AddToGroup(i1, ixn, IndexName(f), FALSE) ELSE i1

\* ParseModelIndexes on a struct: the index map after the loop over the fields
RECURSIVE ParseModelIndexesFrom(_, _)
ParseModelIndexesFrom(info, s) ==
    IF s = <<>> THEN info
    ELSE LET f == Head(s)
             next == IF f.bson = "-" THEN info
                     ELSE IF f.db = <<>>
                     THEN IF IsNested(f)
                          THEN MergeIndexes(info,
                                   ParseModelIndexesFrom(NoIndexInfo, f.inner))
                          ELSE info
                     ELSE AddTagged(info, f)
         IN ParseModelIndexesFrom(next, Tail(s))

ParseModelIndexes(s) == ParseModelIndexesFrom(NoIndexInfo, s)

\* the struct types the functions are applied to
FieldTags ==
    {<<>>, <<Token("unique", "")>>, <<Token("index", "")>>,
     <<Token("unique", "g")>>, <<Token("index", "g")>>,
     <<Token("index", ""), Token("unique", "g")>>,
     <<Token("unique", ""), Token("index", "")>>}
InnerStructs ==
    {<<>>,
     <<Field("ID", "_id,omitempty", <<>>, "string", "j", <<>>)>>,
     <<Field("UID", "", <<Token("pk", "")>>, "string", "q", <<>>)>>,
     <<Field("Name", "name", <<Token("unique", "g")>>, "string", "y", <<>>)>>,
     <<Field("Name", "name", <<Token("index", "g")>>, "string", "y", <<>>),
       Field("ID", "_id", <<>>, "string", "", <<>>)>>}
Fields ==
    {Field("UID", "", <<Token("pk", "")>>, "string", "p", <<>>),
     Field("ID", "_id", <<>>, "string", "i", <<>>)} \cup
    {Field("Name", "name", db, "string", "x", <<>>) : db \in FieldTags} \cup
    {Field("OrderCount", "order_count,omitempty", db, "string", "", <<>>) :
         db \in FieldTags} \cup
    {Field("User", "", <<>>, kind, "", inner) :
         kind \in {"ptr", "struct"}, inner \in InnerStructs} \cup
    {Field("User", "", <<>>, "nil", "", inner) :
         inner \in InnerStructs \ {<<>>}}
Structs ==
    UNION {{s \in [1..n -> Fields] :
               \A i, j \in 1..n : i /= j => s[i].name /= s[j].name} :
           n \in 0..MaxFields}

NoInput == [kind |-> "none", tag |-> <<>>, s |-> <<>>]
NoOutput == [fn |-> "none", info |-> ZeroTagInfo, id |-> NilID,
             idx |-> NoIndexInfo]
MetaInputs ==
    {[kind |-> "tag", tag |-> t, s |-> <<>>] : t \in Tags} \cup
    {[kind |-> "struct", tag |-> <<>>, s |-> st] : st \in Structs}

MetaIdle ==
    /\ minp = NoInput
    /\ mout = NoOutput

MetaInit ==
    /\ minp \in MetaInputs
    /\ mout = NoOutput

metaFrame == <<indexes, before, arg, storeCalls, pg, nx, ix, minp, par>>

\* ParseTag(tag)
CallParseTag ==
    /\ minp.kind = "tag"
    /\ mout' = [NoOutput EXCEPT !.fn = "ParseTag", !.info = ParseTag(minp.tag)]
    /\ UNCHANGED <<listVars, txnVars, metaFrame>>

\* GetID(&model)
CallGetID ==
    /\ minp.kind = "struct"
    /\ mout' = [NoOutput EXCEPT !.fn = "GetID", !.id = GetIDStruct(minp.s)]
    /\ UNCHANGED <<listVars, txnVars, metaFrame>>

\* ParseModelIndexes(&model)
CallParseModelIndexes ==
    /\ minp.kind = "struct"
    /\ mout' = [NoOutput EXCEPT !.fn = "ParseModelIndexes",
                                !.idx = ParseModelIndexes(minp.s)]
    /\ UNCHANGED <<listVars, txnVars, metaFrame>>

MetaNext ==
    \/ CallParseTag
    \/ CallGetID
    \/ CallParseModelIndexes

\* ------------------------------------------------- ParseTag on tag strings
\* A tag string is the sequence of its pieces: the separator characters
\* ",", "=", ";" and " ", and words, none of which contains a separator and
\* no two or more of which spell a recognized key when written together.
RECURSIVE TrimLeft(_, _)
TrimLeft(str, cutset) ==
    IF str /= <<>> /\ Head(str) \in cutset THEN TrimLeft(Tail(str), cutset)
    ELSE str

RECURSIVE TrimRight(_, _)
TrimRight(str, cutset) ==
    IF str /= <<>> /\ str[Len(str)] \in cutset
    THEN TrimRight(SubSeq(str, 1, Len(str) - 1), cutset)
    ELSE str

\* strings.Trim(str, cutset)
Trim(str, cutset) == TrimRight(TrimLeft(str, cutset), cutset)

\* strings.TrimSpace(str)
TrimSpace(str) == Trim(str, {" "})

\* strings.Split(str, sep): the parts between the separators, one part more
\* than there are separators
RECURSIVE SplitFrom(_, _, _)
SplitFrom(str, sep, part) ==
    IF str = <<>> THEN <<part>>
    ELSE IF Head(str) = sep THEN <<part>> \o SplitFrom(Tail(str), sep, <<>>)
    ELSE SplitFrom(Tail(str), sep, Append(part, Head(str)))

Split(str, sep) == SplitFrom(str, sep, <<>>)

\* the key of a segment as one string: a key of several pieces equals no
\* recognized key
KeyString(str) ==
    IF str = <<>> THEN "" ELSE IF Len(str) = 1 THEN str[1] ELSE "<other>"

SegmentTokenSplitOnce(v) ==
    LET arr == Split(v, "=")
        rest == SubSeq(v, Len(arr[1]) + 2, Len(v))
    IN Token(KeyString(TrimSpace(arr[1])),
             IF Len(arr) > 1 THEN TrimSpace(rest) ELSE <<>>)

\* arr := strings.Split(v, "="); k from arr[0]; val from arr[1] when there is
\* one: what follows a second "=" is in arr[2] and is not read
SegmentToken(v) ==
    LET arr == Split(v, "=")
    IN Token(KeyString(TrimSpace(arr[1])),
             IF Len(arr) > 1 THEN TrimSpace(arr[2]) ELSE <<>>)

TokenizeSemicolonSeparates(tag) ==
    LET commas == [i \in 1..Len(tag) |-> IF tag[i] = ";" THEN "," ELSE tag[i]]
        multTypes == Split(Trim(commas, {",", " ", ";"}), ",")
    IN [i \in 1..Len(multTypes) |-> SegmentToken(multTypes[i])]

\* multTypes := strings.Split(strings.Trim(tag, ", ;"), ",") and the start of
\* the loop body for each of them
Tokenize(tag) ==
    LET multTypes == Split(Trim(tag, {",", " ", ";"}), ",")
    IN [i \in 1..Len(multTypes) |-> SegmentToken(multTypes[i])]

\* info := TagInfo{}, the names being strings of pieces
ZeroTagInfoString == TagInfo(FALSE, <<>>, FALSE, <<>>, FALSE)

\* ParseTag(tag) on a tag string
ParseTagString(tag) == ParseTagFrom(ZeroTagInfoString, Tokenize(tag))

\* the segments tag strings are written with
Segments ==
    {<<>>, <<"unique">>, <<"index">>, <<"pk">>, <<"INDEX">>,
     <<" ", "pk", " ">>,
     <<"unique", "=", "a">>, <<"unique", " ", "=", " ", "a">>,
     <<"unique", "=", "a", "=", "b">>, <<"index", "=", "a", "=">>,
     <<"unique", "=", "a", ";", "b">>,
     <<"index", ";", "ss">>, <<"unique", ";", "index", ";", "pk">>,
     <<"unique", ";">>, <<";", "pk">>}

\* strings.Join(segs, ",")
RECURSIVE Join(_)
Join(segs) ==
    IF segs = <<>> THEN <<>>
    ELSE IF Len(segs) = 1 THEN segs[1]
    ELSE segs[1] \o <<",">> \o Join(Tail(segs))

TagStrings ==
    {Join(segs) : segs \in UNION {[1..n -> Segments] : n \in 1..MaxTokens}}

TagInit ==
    /\ minp \in {[kind |-> "string", tag |-> t, s |-> <<>>] : t \in TagStrings}
    /\ mout = NoOutput

\* ParseTag(tag) for a tag string
CallParseTagString ==
    /\ minp.kind = "string"
    /\ mout' = [NoOutput EXCEPT !.fn = "ParseTagString",
                                !.info = ParseTagString(minp.tag)]
    /\ UNCHANGED <<listVars, txnVars, metaFrame>>

TagNext == CallParseTagString

\* ------------------------------------------- Model.Count / Model.Pagination
\* the sort argument: nil, {_id: 1} or {_id: -1}
Sorts == {"nil", "asc", "desc"}

\* the orders in which a find returns the documents S: sorted on _id, or in
\* natural order, which the store does not specify, when no sort is set
Orders(S, sort) ==
    IF sort = "nil"
    THEN {o \in [1..Cardinality(S) -> S] :
             \A i, j \in 1..Cardinality(S) : o[i] = o[j] => i = j}
    ELSE {SortIds(S, sort = "desc")}

\* the documents left of a result after SetSkip(skip).SetLimit(lim), lim > 0
Window(o, skip, lim) ==
    IF skip >= Len(o) THEN <<>>
    ELSE SubSeq(o, skip + 1, IF skip + lim < Len(o) THEN skip + lim ELSE Len(o))

\* m.coll.Find(filter, opt) and cursor.All: the lists the call can yield
FindAll(c, f, sort, skip, lim) ==
    {Window(o, skip, lim) : o \in Orders({id \in c : Matches(id, f)}, sort)}

\* EstimatedDocumentCount reads the collection's metadata: the count it
\* reports can be off the number of stored documents
EstimatedDocumentCount(c) ==
    {n \in (Cardinality(c) - 1)..(Cardinality(c) + 1) : n >= 0}

CountDocuments(c, f) == Cardinality({id \in c : Matches(id, f)})

\* Model.Count(filter): the estimate for a nil or empty filter, the exact
\* count otherwise
ModelCount(c, f) ==
    IF f = NoFilter THEN EstimatedDocumentCount(c) ELSE {CountDocuments(c, f)}

\* if page < 1 { page = 1 };  if pageSize < 1 { pageSize = 1 }
AtLeastOne(n) == IF n < 1 THEN 1 ELSE n

PageSkipFromPage(page, pageSize) == AtLeastOne(page) * AtLeastOne(pageSize)

\* SetSkip((page - 1) * pageSize) after the clamps
PageSkip(page, pageSize) == (AtLeastOne(page) - 1) * AtLeastOne(pageSize)

PageLimitPlusOne(pageSize) == AtLeastOne(pageSize) + 1

\* SetLimit(pageSize) after the clamp
PageLimit(pageSize) == AtLeastOne(pageSize)

\* n is 0 before the call, 2 between its count and its find, 1 after it;
\* matched is the number of matching documents when they were counted, ins
\* and dels the writes of others between the count and the find
NoPg == [n |-> 0, f |-> NoFilter, sort |-> "nil", page |-> 0, pageSize |-> 0,
         total |-> 0, list |-> <<>>, err |-> "nil", skip |-> 0, limit |-> 0,
         queried |-> FALSE, fail |-> "none", matched |-> 0, ins |-> 0,
         dels |-> 0]

\* Model.Pagination(filter, sort, page, pageSize): the results the call can
\* have; fail says which store operation, if any, reports an error
ModelPagination(c, f, sort, page, pageSize, fail) ==
    IF fail = "count"
    THEN {[total |-> 0, list |-> <<>>, err |-> "storeErr", skip |-> 0,
           limit |-> 0, queried |-> FALSE]}
    ELSE UNION {
        IF total < 1
        THEN {[total |-> total, list |-> <<>>, err |-> "nil", skip |-> 0,
               limit |-> 0, queried |-> FALSE]}
        ELSE IF fail = "find"
        THEN {[total |-> total, list |-> <<>>, err |-> "storeErr",
               skip |-> PageSkip(page, pageSize),
               limit |-> PageLimit(pageSize), queried |-> TRUE]}
        ELSE {[total |-> total, list |-> l, err |-> "nil",
               skip |-> PageSkip(page, pageSize),
               limit |-> PageLimit(pageSize), queried |-> TRUE] :
                 l \in FindAll(c, f, sort, PageSkip(page, pageSize),
                               PageLimit(pageSize))} :
        total \in ModelCount(c, f)}

pageRest == <<indexes, before, arg, storeCalls, ix, minp, mout, par>>

\* A call reads the collection and changes nothing in it, so its result does
\* not depend on earlier calls: each behaviour makes one call.
Pagination(f, sort, page, pageSize, fail) ==
    /\ pg.n = 0
    /\ \E r \in ModelPagination(coll, f, sort, page, pageSize, fail) :
         pg' = [n |-> 1, f |-> f, sort |-> sort, page |-> page,
                pageSize |-> pageSize, total |-> r.total, list |-> r.list,
                err |-> r.err, skip |-> r.skip, limit |-> r.limit,
                queried |-> r.queried, fail |-> fail,
                matched |-> CountDocuments(coll, f), ins |-> 0, dels |-> 0]
    /\ UNCHANGED <<nx, pageRest>>
    /\ UNCHANGED <<listVars, txnVars>>

PageNext ==
    \E f \in Filters, sort \in Sorts, page \in -1..MaxPage,
       pageSize \in -1..MaxPageSize, fail \in {"none", "count", "find"} :
        Pagination(f, sort, page, pageSize, fail)

\* Model.Pagination beside other writers: the count and the find are two
\* store operations, and the collection can change between them
PgCount(f, sort, page, pageSize) ==
    /\ pg.n = 0
    /\ \E total \in ModelCount(coll, f) :
         pg' = [NoPg EXCEPT !.n = IF total < 1 THEN 1 ELSE 2,
                            !.f = f, !.sort = sort, !.page = page,
                            !.pageSize = pageSize, !.total = total,
                            !.matched = CountDocuments(coll, f)]
    /\ UNCHANGED <<nx, pageRest>>
    /\ UNCHANGED <<listVars, txnVars>>

\* another writer stores a new document (Model.Set) in between
PgInsert(id) ==
    /\ pg.n = 2
    /\ pg.ins + pg.dels < MaxWrites
    /\ id \notin coll
    /\ coll' = coll \cup {id}
    /\ pg' = [pg EXCEPT !.ins = pg.ins + 1]
    /\ UNCHANGED <<lpc, desc, limit, projId, filter, nextFilter, cursor, last,
                   couter, delivered, lret, finds, writes, failed, stopVars,
                   ghostVars>>
    /\ UNCHANGED <<nx, pageRest, txnVars>>

\* another writer deletes a document (Model.Del) in between
PgDelete(id) ==
    /\ pg.n = 2
    /\ pg.ins + pg.dels < MaxWrites
    /\ id \in coll
    /\ coll' = coll \ {id}
    /\ pg' = [pg EXCEPT !.dels = pg.dels + 1]
    /\ UNCHANGED <<lpc, desc, limit, projId, filter, nextFilter, cursor, last,
                   couter, delivered, lret, finds, writes, failed, stopVars,
                   ghostVars>>
    /\ UNCHANGED <<nx, pageRest, txnVars>>

\* the clamps, the find with skip and limit, and cursor.All
PgFind ==
    /\ pg.n = 2
    /\ \E l \in FindAll(coll, pg.f, pg.sort, PageSkip(pg.page, pg.pageSize),
                        PageLimit(pg.pageSize)) :
         pg' = [pg EXCEPT !.n = 1, !.list = l, !.queried = TRUE,
                          !.skip = PageSkip(pg.page, pg.pageSize),
                          !.limit = PageLimit(pg.pageSize)]
    /\ UNCHANGED <<nx, pageRest>>
    /\ UNCHANGED <<listVars, txnVars>>

PageWNext ==
    \/ \E f \in Filters, sort \in Sorts, page \in -1..MaxPage,
          pageSize \in -1..MaxPageSize : PgCount(f, sort, page, pageSize)
    \/ \E id \in Ids : PgInsert(id)
    \/ \E id \in Ids : PgDelete(id)
    \/ PgFind

\* --------------------------------------------------------------- Model.Next
\* if lastID != "" { filter.Set("_id", Map().Set("$gt", lastID)) }: the _id
\* clause of the filter is replaced, whatever the sort
NextFilter(f, lastID) ==
    IF lastID /= EmptyString THEN [gt |-> lastID, lt |-> NoBound] ELSE f

\* if pageSize < 1 { pageSize = 10 }
NextLimit(pageSize) == IF pageSize < 1 THEN nextPageSize ELSE pageSize

\* Model.Next(filter, sort, lastID, pageSize): the lists the call can return
ModelNext(c, f, sort, lastID, pageSize) ==
    FindAll(c, NextFilter(f, lastID), sort, 0, NextLimit(pageSize))

\* the caller's filter object after the call: filter.Set writes into the map
\* the caller passed; for a nil filter it writes into a map made by the call
FilterAfterNext(obj, isNil, lastID) ==
    IF isNil THEN obj ELSE NextFilter(obj, lastID)

\* f is the filter the chain was begun with, isNil whether it was nil, obj
\* the caller's filter object as the calls left it
NoNx == [calls |-> 0, f |-> NoFilter, isNil |-> TRUE, obj |-> NoFilter,
         sort |-> "nil", pageSize |-> 0, lastID |-> EmptyString,
         page |-> <<>>, seen |-> <<>>, reused |-> FALSE]

\* the first call of a chain: Next(filter, sort, "", pageSize).  Next changes
\* nothing in the collection, so chains do not influence each other: each
\* behaviour follows one chain.
NextFirst(f, isNil, sort, pageSize) ==
    /\ nx.calls = 0
    /\ isNil => f = NoFilter
    /\ \E l \in ModelNext(coll, f, sort, EmptyString, pageSize) :
         nx' = [calls |-> 1, f |-> f, isNil |-> isNil,
                obj |-> FilterAfterNext(f, isNil, EmptyString),
                sort |-> sort, pageSize |-> pageSize,
                lastID |-> EmptyString, page |-> l, seen |-> l,
                reused |-> FALSE]
    /\ UNCHANGED <<pg, pageRest>>
    /\ UNCHANGED <<listVars, txnVars>>

\* a further call of the chain: the caller passes the _id of the last document
\* of the previous page as lastID, with the same filter object, sort and
\* pageSize
NextAgain ==
    /\ nx.calls >= 1
    /\ nx.calls < MaxNext
    /\ ~nx.reused
    /\ nx.page /= <<>>
    /\ LET lastID == IdString(nx.page[Len(nx.page)]) IN
       \E l \in ModelNext(coll, nx.obj, nx.sort, lastID, nx.pageSize) :
         nx' = [nx EXCEPT !.calls = nx.calls + 1, !.lastID = lastID,
                          !.obj = FilterAfterNext(nx.obj, nx.isNil, lastID),
                          !.page = l, !.seen = nx.seen \o l]
    /\ UNCHANGED <<pg, pageRest>>
    /\ UNCHANGED <<listVars, txnVars>>

\* a later call with the same filter object and an empty lastID, to read the
\* first page again
NextSameFilter ==
    /\ nx.calls >= 1
    /\ nx.calls < MaxNext
    /\ ~nx.reused
    /\ \E l \in ModelNext(coll, nx.obj, nx.sort, EmptyString, nx.pageSize) :
         nx' = [nx EXCEPT !.calls = nx.calls + 1, !.lastID = EmptyString,
                          !.page = l, !.reused = TRUE]
    /\ UNCHANGED <<pg, pageRest>>
    /\ UNCHANGED <<listVars, txnVars>>

ChainNext ==
    \/ \E f \in Filters, isNil \in BOOLEAN, sort \in Sorts,
          pageSize \in -1..MaxPageSize :
         NextFirst(f, isNil, sort, pageSize)
    \/ NextAgain

ReuseNext ==
    \/ ChainNext
    \/ NextSameFilter

\* ------------------------------------------ Model.List, page-partitioned
\* pages := int64(math.Ceil(float64(total) / float64(pageSize)))
Pages(total) == (total + listPageSize - 1) \div listPageSize

\* the counts Model.Count reports: none, and the first and the last size
\* that make k pages
Totals ==
    {0} \cup {(k - 1) * listPageSize + 1 : k \in 1..MaxPages}
        \cup {k * listPageSize : k \in 1..MaxPages}

NoTask == [st |-> "none", cbs |-> 0]
NoErr == [kind |-> "nil", page |-> 0]

\* pc is where the dispatching loop stands, stop the stopLoop flag, task the
\* page tasks, egErr the error the errgroup keeps (the first a task returned),
\* flagBy the page whose callback set the flag first, lateStarts the tasks
\* started and lateCbs the callbacks invoked when the flag was already set
NoPar == [pc |-> "idle", total |-> 0, conc |-> 0, pages |-> 0, page |-> 0,
          stop |-> FALSE, task |-> [p \in 1..MaxPages |-> NoTask],
          egErr |-> NoErr, ret |-> NoErr, flagBy |-> 0, lateStarts |-> 0,
          lateCbs |-> 0]

\* goroutines of the errgroup that have not returned
Active == {p \in 1..MaxPages : par.task[p].st \in {"run", "failing"}}

\* the errgroup keeps the first non-nil error a task returns
FirstErr(egErr, err) == IF egErr = NoErr THEN err ELSE egErr

parRest == <<indexes, before, arg, storeCalls, pg, nx, ix, minp, mout>>

\* List(filter, concurrency, cb) up to the loop: Count, total < 1 returns nil
ParList(total, conc, countFails) ==
    /\ par.pc = "idle"
    /\ par' = IF countFails
              THEN [par EXCEPT !.pc = "done", !.conc = conc,
                               !.ret = [kind |-> "store", page |-> 0]]
              ELSE IF total < 1
              THEN [par EXCEPT !.pc = "done", !.conc = conc]
              ELSE [par EXCEPT !.pc = "check", !.total = total, !.conc = conc,
                               !.pages = Pages(total), !.page = 1]
    /\ UNCHANGED <<listVars, txnVars, parRest>>

LoopBreaksNever(page, pages, stop) == page > pages

\* for page = 1; page <= pages; page++ { if stopLoop.Load() { break } ...
LoopBreaks(page, pages, stop) == page > pages \/ stop

\* the loop head: leave the loop for eg.Wait, or go on to handle(page)
ParCheck ==
    /\ par.pc = "check"
    /\ par' = IF LoopBreaks(par.page, par.pages, par.stop)
              THEN [par EXCEPT !.pc = "wait"]
              ELSE [par EXCEPT !.pc = "go"]
    /\ UNCHANGED <<listVars, txnVars, parRest>>

\* handle(page): eg.Go blocks until fewer than the limit are active, then
\* starts the page task; page++
ParGo ==
    /\ par.pc = "go"
    /\ Cardinality(Active) < par.conc
    /\ par' = [par EXCEPT !.task[par.page] = [st |-> "run", cbs |-> 0],
                          !.page = par.page + 1,
                          !.pc = "check",
                          !.lateStarts = IF par.stop THEN par.lateStarts + 1
                                         ELSE par.lateStarts]
    /\ UNCHANGED <<listVars, txnVars, parRest>>

\* a page task whose Find or cur.All fails returns the error; the flag is
\* left alone
TaskFindError(p) ==
    /\ par.task[p].st = "run"
    /\ par.task[p].cbs = 0
    /\ par' = [par EXCEPT !.task[p].st = "returned",
                          !.egErr = FirstErr(par.egErr,
                                             [kind |-> "store", page |-> p])]
    /\ UNCHANGED <<listVars, txnVars, parRest>>

\* err = cb(v, total) in a page task: on an error stopLoop.Store(true), the
\* return follows
TaskCb(p, ok) ==
    /\ par.task[p].st = "run"
    /\ par.task[p].cbs < MaxCb
    /\ par' = [par EXCEPT
                 !.task[p] = [st |-> IF ok THEN "run" ELSE "failing",
                              cbs |-> par.task[p].cbs + 1],
                 !.stop = par.stop \/ ~ok,
                 !.flagBy = IF ~ok /\ ~par.stop THEN p ELSE par.flagBy,
                 !.lateCbs = IF par.stop /\ par.lateCbs < MaxCb
                             THEN par.lateCbs + 1 ELSE par.lateCbs]
    /\ UNCHANGED <<listVars, txnVars, parRest>>

\* return err after the flag was stored
TaskReturnErr(p) ==
    /\ par.task[p].st = "failing"
    /\ par' = [par EXCEPT !.task[p].st = "returned",
                          !.egErr = FirstErr(par.egErr,
                                             [kind |-> "cb", page |-> p])]
    /\ UNCHANGED <<listVars, txnVars, parRest>>

\* the documents of the page are used up: return nil
TaskReturnNil(p) ==
    /\ par.task[p].st = "run"
    /\ par' = [par EXCEPT !.task[p].st = "returned"]
    /\ UNCHANGED <<listVars, txnVars, parRest>>

\* return eg.Wait(): blocks until every started task has returned
ParWait ==
    /\ par.pc = "wait"
    /\ Active = {}
    /\ par' = [par EXCEPT !.pc = "done", !.ret = par.egErr]
    /\ UNCHANGED <<listVars, txnVars, parRest>>

ParNext ==
    \/ \E total \in Totals, conc \in 1..MaxConc, countFails \in BOOLEAN :
         ParList(total, conc, countFails)
    \/ ParCheck
    \/ ParGo
    \/ \E p \in 1..MaxPages : TaskFindError(p)
    \/ \E p \in 1..MaxPages, ok \in BOOLEAN : TaskCb(p, ok)
    \/ \E p \in 1..MaxPages : TaskReturnErr(p)
    \/ \E p \in 1..MaxPages : TaskReturnNil(p)
    \/ ParWait

\* -------------------------------------------------------- Database.Indexes
\* the name the store gives an index created without one
DefaultName(keys) ==
    CASE keys = <<"name">> -> "name_1"
      [] keys = <<"order_count">> -> "order_count_1"
      [] OTHER -> "keys_1"

\* the orders in which a range over a Go map can visit these keys
MapOrders(keys) ==
    {p \in [1..Len(keys) -> Range(keys)] :
        \A i, j \in 1..Len(keys) : p[i] = p[j] => i = j}

\* keysMapToString(indexDoc["key"].(bson.M)): the key:value parts joined in
\* the order the range over the map visits them
KeysMapToString(keys) == MapOrders(keys)

\* keysToString(keys) for the requested bson.D: the parts in field order
KeysToString(keys) == keys

\* indexView.CreateOne on a collection c with indexes ixs: creating an index
\* that exists identically changes nothing; same keys or same name with
\* something else different is refused, and so is a unique index the stored
\* documents violate
CreateOne(ixs, c, x) ==
    IF x \in ixs THEN [err |-> "nil", ixs |-> ixs]
    ELSE IF \E y \in ixs : y.keys = x.keys \/ y.name = x.name
    THEN [err |-> "indexConflict", ixs |-> ixs]
    ELSE IF x.unique /\ \E id \in DOMAIN c : Collides(c, {x}, id, c[id])
    THEN [err |-> "storeErr", ixs |-> ixs]
    ELSE [err |-> "nil", ixs |-> ixs \cup {x}]

\* the loop over indexInfo, visiting its groups in the order seq: a group
\* whose key string is among the existing ones is skipped, the others are
\* created until one fails; asked collects the keys of the requests
RECURSIVE CreateMissing(_, _, _, _, _, _)
CreateMissing(ixs, c, existingIndexKeys, info, seq, asked) ==
    IF seq = <<>> THEN [err |-> "nil", ixs |-> ixs, asked |-> asked]
    ELSE LET groupName == Head(seq)
             v == info[groupName]
         IN IF KeysToString(v.Fields) \in existingIndexKeys
            THEN CreateMissing(ixs, c, existingIndexKeys, info, Tail(seq),
                               asked)
            ELSE LET name == IF Len(v.Fields) > 1 THEN groupName
                             ELSE DefaultName(v.Fields)
                     r == CreateOne(ixs, c, Index(v.Fields, v.Unique, name))
                 IN IF r.err /= "nil"
                    THEN [err |-> r.err, ixs |-> r.ixs,
                          asked |-> Append(asked, v.Fields)]
                    ELSE CreateMissing(r.ixs, c, existingIndexKeys, info,
                                       Tail(seq), Append(asked, v.Fields))

\* the struct types Database.Indexes is called with
IndexModels ==
    {<<Field("ID", "_id", <<>>, "string", "", <<>>)>>,
     <<Field("Name", "name", <<Token("unique", "")>>, "string", "", <<>>)>>,
     <<Field("Name", "name", <<Token("index", "")>>, "string", "", <<>>)>>,
     <<Field("Name", "name", <<Token("index", ""), Token("unique", "g")>>,
             "string", "", <<>>)>>,
     <<Field("Name", "name", <<Token("unique", "g")>>, "string", "", <<>>),
       Field("OrderCount", "order_count,omitempty", <<Token("unique", "g")>>,
             "string", "", <<>>)>>,
     <<Field("OrderCount", "order_count,omitempty", <<Token("unique", "h")>>,
             "string", "", <<>>),
       Field("Name", "name", <<Token("unique", "h")>>, "string", "", <<>>)>>}

NoIx == [n |-> 0, model |-> <<>>, err |-> "nil", asked |-> <<>>, had |-> {},
         prev |-> <<>>, prevErr |-> "nil"]

\* the orders in which the range over the indexInfo map can visit its groups
GroupOrders(info) ==
    {s \in [1..Cardinality(DOMAIN info) -> DOMAIN info] :
        \A i, j \in 1..Cardinality(DOMAIN info) : s[i] = s[j] => i = j}

\* the sets existingIndexKeys can be after the listing loop: one key string
\* for each existing index
ExistingIndexKeys(ixs) ==
    {{o[x] : x \in ixs} :
        o \in {f \in [ixs -> UNION {KeysMapToString(x.keys) : x \in ixs}] :
                  \A x \in ixs : f[x] \in KeysMapToString(x.keys)}}

\* Database.Indexes(ctx, model): parse the model's indexes, list the existing
\* ones, create the missing ones
Indexes(model) ==
    /\ LET info == ParseModelIndexes(model) IN
       \E existingIndexKeys \in ExistingIndexKeys(indexes),
          seq \in GroupOrders(info) :
          LET r == IF DOMAIN info = {}
                   THEN [err |-> "nil", ixs |-> indexes, asked |-> <<>>]
                   ELSE CreateMissing(indexes, store["user"],
                                      existingIndexKeys, info, seq, <<>>)
          IN /\ indexes' = r.ixs
             /\ ix' = [n |-> IF ix.n < 2 THEN ix.n + 1 ELSE 2,
                       model |-> model, err |-> r.err, asked |-> r.asked,
                       had |-> {x.keys : x \in indexes},
                       prev |-> ix.model, prevErr |-> ix.err]
    /\ UNCHANGED <<before, arg, storeCalls, pg, nx, minp, mout, par>>
    /\ UNCHANGED <<listVars, txnVars>>

IdxNext == \E model \in IndexModels : Indexes(model)

\* the state of the parts a specification does not exercise
CrudIdle ==
    /\ before = EmptyColl
    /\ arg = ZeroEntity
    /\ storeCalls = 0

IdxIdle ==
    /\ indexes = {}
    /\ ix = NoIx

\* the indexes Database.Indexes leaves on the user collection for models
\* that declare none, a unique index on name, or a unique compound index
IdIndex == Index(<<"_id">>, FALSE, "_id_")
CrudIndexes ==
    /\ indexes \in {{IdIndex},
                    {IdIndex, Index(<<"name">>, TRUE, "name_1")},
                    {IdIndex, Index(<<"name", "order_count">>, TRUE, "g")}}
    /\ ix = NoIx

\* before the first Database.Indexes call the user collection has its _id
\* index and the documents earlier Set calls left
IdxColls ==
    LET one(c, id, n) == Upsert(c, id, Marshal(Entity(id, n, "")))
    IN {EmptyColl, one(EmptyColl, "a", "x"),
        one(one(EmptyColl, "a", "x"), "b", "x"),
        one(one(EmptyColl, "a", "x"), "b", "y")}
IdxInit ==
    /\ store \in {[c \in Colls |-> IF c = "user" THEN u ELSE EmptyColl] :
                      u \in IdxColls}
    /\ view = store
    /\ pre = store
    /\ tpc = "idle"
    /\ multiArg = <<>>
    /\ ctx = "plain"
    /\ calls = 0
    /\ attempts = 0
    /\ nops = 0
    /\ opErr = "nil"
    /\ fnRet = "none"
    /\ firstFnRet = "none"
    /\ tret = "none"
    /\ wlog = <<>>
    /\ sessFailed = FALSE
    /\ commitFailed = FALSE
    /\ transients = 0
    /\ res = NoRes
    /\ hist = [id \in CrudIds |-> NoHist]
    /\ indexes = {IdIndex}
    /\ ix = NoIx

PageIdle ==
    /\ pg = NoPg
    /\ nx = NoNx
    /\ par = NoPar

\* ---------------------------------------------------------- specifications
ListIdle ==
    /\ ListInit
    /\ coll = {}

InitList == ListInit /\ TxnIdle /\ CrudIdle /\ IdxIdle /\ PageIdle /\ MetaIdle
SpecList == InitList /\ [][ListNext]_vars

InitTxn == ListIdle /\ TxnInit /\ CrudIdle /\ IdxIdle /\ PageIdle /\ MetaIdle
SpecTxn == InitTxn /\ [][TxnNext]_vars

InitCrud == ListIdle /\ TxnIdle /\ CrudIdle /\ CrudIndexes /\ PageIdle /\ MetaIdle
SpecCrud == InitCrud /\ [][CrudNext]_vars

InitPage == ListInit /\ TxnIdle /\ CrudIdle /\ IdxIdle /\ PageIdle /\ MetaIdle
SpecPage == InitPage /\ [][PageNext]_vars

InitChain == ListInit /\ TxnIdle /\ CrudIdle /\ IdxIdle /\ PageIdle /\ MetaIdle
SpecChain == InitChain /\ [][ChainNext]_vars

InitTag == ListIdle /\ TxnIdle /\ CrudIdle /\ IdxIdle /\ PageIdle /\ TagInit
SpecTag == InitTag /\ [][TagNext]_vars

SpecReuse == InitChain /\ [][ReuseNext]_vars

InitPar == ListIdle /\ TxnIdle /\ CrudIdle /\ IdxIdle /\ PageIdle /\ MetaIdle
SpecPar == InitPar /\ [][ParNext]_vars

SpecPageW == InitPage /\ [][PageWNext]_vars

InitIdx == ListIdle /\ IdxInit /\ CrudIdle /\ PageIdle /\ MetaIdle
SpecIdx == InitIdx /\ [][IdxNext]_vars

InitMeta == ListIdle /\ TxnIdle /\ CrudIdle /\ IdxIdle /\ PageIdle /\ MetaInit
SpecMeta == InitMeta /\ [][MetaNext]_vars

\* ------------------------------------------------------ ListByCursor claims
\* The call ran to its end undisturbed: cb always returned (true, nil), no
\* store error, the default projection, no numeric _id involved
CleanRun ==
    /\ lpc = "done"
    /\ stopK = 0
    /\ ~failed
    /\ projId
    /\ NumID \notin coll \cup Range(delivered) \cup gone \cup goneClaim

\* C1: over an unmodified collection of N documents with string _id values,
\* a call with batch size B < N and no filter invokes cb exactly once per
\* document, in ascending _id order, or in descending order when desc.
C1_DeliversAllInOrder ==
    (CleanRun /\ writes = 0 /\ filter = NoFilter /\ limit < Cardinality(coll))
        => (delivered = SortIds(coll, desc) /\ lret = "nil")

C1_Witness ==
    /\ CleanRun /\ writes = 0 /\ filter = NoFilter
    /\ desc /\ limit = 2 /\ Cardinality(coll) = 3
    /\ finds = 2 /\ Len(delivered) = 3

\* C2: whatever other writers insert or delete meanwhile, the _id values
\* handed to cb within one call are strictly increasing (strictly decreasing
\* when desc), so they are ordered and none is delivered twice.
C2_StrictlyOrdered ==
    \A i \in 1..(Len(delivered) - 1) :
        IF desc THEN delivered[i] > delivered[i + 1]
        ELSE delivered[i] < delivered[i + 1]

C2_Witness ==
    /\ desc /\ writes = 2 /\ finds >= 2 /\ Len(delivered) >= 3

C4_StopsAtCallback ==
    stopK > 0 =>
        /\ lpc = "done"
        /\ Len(delivered) = stopK
        /\ finds = findsAtStop
        /\ lret = stopErr

C4_Witness ==
    /\ stopK = 2 /\ stopErr = "cbErr" /\ lret = "cbErr"
    /\ cursor.buf /= <<>> /\ finds = 1

\* the cursor of the current batch query is exhausted and the call moves on
BatchEnds == lpc = "iter" /\ cursor.buf = <<>> /\ ~cursor.open /\ lpc' /= lpc

\* C5: a batch that delivered fewer than limit documents ends the call with
\* nil, a find after the first one is only issued after a batch that
\* delivered exactly limit documents, and a finished call issues no find.
C5_PartialBatchEnds ==
    [][/\ (BatchEnds /\ couter < limit) => (lpc' = "done" /\ lret' = "nil")
       /\ (finds' /= finds /\ finds > 0) => couter = limit
       /\ lpc = "done" => finds' = finds]_vars

C5_Witness ==
    /\ lpc = "done" /\ lret = "nil" /\ stopK = 0 /\ ~failed
    /\ finds = 2 /\ couter = 1 /\ limit = 2

\* ------------------------------------------------------------- Txn claims
CalledMulti == multiArg = <<TRUE>>
TxnDone == tpc = "done"

\* the store reported no transient error and no commit error
NoStoreError == transients = 0 /\ ~commitFailed

C7_PlainRunsOnceNoRollback ==
    (TxnDone /\ ~CalledMulti) =>
        /\ calls = 1
        /\ tret = fnRet
        /\ store = Apply(pre, wlog)

C7_Witness ==
    /\ TxnDone /\ multiArg = <<FALSE>> /\ tret = "fnErr"
    /\ Len(wlog) = 1 /\ store /= pre

\* C8: in a Txn run with multiDoc=false the function's operations are atomic:
\* when the function fails none of its writes has taken effect.
C8_PlainAtomic ==
    (TxnDone /\ multiArg = <<FALSE>> /\ tret /= "nil") => store = pre

\* C9 as claimed: in a multi-document Txn whose session started, the function
\* is invoked exactly once, whatever it returns and whatever the store reports.
C9_AsClaimed ==
    (TxnDone /\ CalledMulti /\ ~sessFailed) => calls = 1

\* C9 amended: in a multi-document Txn the function is invoked once, and
\* again only after the store reported an error labelled transient (at most
\* one further run per such error, made by the driver's WithTransaction);
\* it is not invoked at all when the session cannot be started.
C9_RerunOnlyOnTransient ==
    CalledMulti =>
        /\ sessFailed => calls = 0
        /\ (tpc /= "idle" /\ ~sessFailed) => (calls >= 1 /\ calls <= 1 + transients)
        /\ calls = attempts

C9_Witness ==
    /\ TxnDone /\ CalledMulti /\ calls = 2 /\ transients = 1 /\ tret = "nil"
    /\ firstFnRet = "transientErr"

\* ------------------------------------------------------------ CRUD claims
\* the key/value pairs Set stores for entity e
StoredFields(e) == Marshal(e)
FieldOf(m, k) ==
    IF k = "_id" THEN m.ID ELSE IF k = "name" THEN m.Name ELSE m.OrderCount

\* C10: after a successful Set(e), Get(id of e) returns exactly the fields
\* stored for e and Unmarshal(id of e) fills the target with them; after a
\* later Del(id) both return ErrRecordNotFound.
C10_SetGetDel ==
    (res.op \in {"Get", "Unmarshal"}) =>
        LET h == hist[res.id] IN
        /\ h.kind = "set" =>
            /\ res.err = "nil"
            /\ res.op = "Get" => res.doc = StoredFields(h.e)
            /\ res.op = "Unmarshal" =>
                  \A k \in DOMAIN StoredFields(h.e) :
                      FieldOf(res.model, k) = StoredFields(h.e)[k]
        /\ h.kind = "del" => res.err = "ErrRecordNotFound"

C10_Witness ==
    /\ res.op = "Unmarshal" /\ res.id = "a" /\ res.err = "ErrRecordNotFound"
    /\ hist["a"].kind = "del"
    /\ hist["b"].kind = "set" /\ "b" \in DOMAIN store["user"]
    /\ "order_count" \notin DOMAIN store["user"]["b"]

\* C11: a successful Update(patch) returns the previous document overlaid
\* with the serialized patch: every field of the serialized patch has the
\* patch's value, every other field the value it had before, and the stored
\* document equals the returned one.
C11_UpdateOverlays ==
    (res.op = "Update" /\ res.err = "nil") =>
        LET patch == Marshal(arg)
            old == before[res.id]
        IN /\ DOMAIN res.doc = DOMAIN old \cup DOMAIN patch
           /\ \A k \in DOMAIN patch : res.doc[k] = patch[k]
           /\ \A k \in DOMAIN old \ DOMAIN patch : res.doc[k] = old[k]
           /\ store["user"][res.id] = res.doc

C11_Witness ==
    /\ res.op = "Update" /\ res.err = "nil" /\ res.id = "a"
    /\ arg = Entity("a", "y", "")
    /\ before["a"] = [_id |-> "a", name |-> "x", order_count |-> "1"]
    /\ res.doc = [_id |-> "a", name |-> "y", order_count |-> "1"]

\* a document stored under another _id has the entity's values for every key
\* of some unique index
DupFor(e) ==
    \E x \in indexes, id2 \in DOMAIN before \ {GetID(e)} :
        /\ x.unique
        /\ \A i \in 1..Len(x.keys) :
               KeyValue(StoredFields(e), x.keys[i])
                   = KeyValue(before[id2], x.keys[i])

\* C12: with a unique (single or compound) index in place, a Set for a new ID
\* whose indexed values collide with a stored document returns
\* ErrDuplicateKey and leaves the store unchanged.
C12_DupKeyKeepsStore ==
    (res.op = "Set" /\ ~NoID(GetID(arg)) /\ GetID(arg) \notin DOMAIN before
                    /\ DupFor(arg)) =>
        /\ res.err = "ErrDuplicateKey"
        /\ store["user"] = before
        /\ GetID(arg) \notin DOMAIN store["user"]

C12_Witness ==
    /\ res.op = "Set" /\ res.err = "ErrDuplicateKey"
    /\ Index(<<"name", "order_count">>, TRUE, "g") \in indexes
    /\ arg = Entity("b", "x", "")
    /\ DOMAIN before = {"a"} /\ store["user"] = before

\* C13: Set and Update return ErrNoID, issue no store request and leave the
\* store unchanged when GetID finds no ID (nil) or an empty one.
C13_NoIDNoStoreCall ==
    (res.op \in {"Set", "Update"} /\ (GetID(arg) = NilID \/ GetID(arg) = "")) =>
        /\ res.err = "ErrNoID"
        /\ storeCalls = 0
        /\ store["user"] = before

C13_Witness ==
    /\ res.op = "Update" /\ GetID(arg) = "" /\ res.err = "ErrNoID"
    /\ storeCalls = 0 /\ DOMAIN before = {"a", "b"}

\* ------------------------------------------------- introspection claims
Called(fn) == mout.fn = fn

\* the group a field's unique / index token puts it into
UniqueGroup(f) ==
    IF ParseTag(f.db).UniqueName = "" THEN IndexName(f)
    ELSE ParseTag(f.db).UniqueName
IndexGroup(f) ==
    IF ParseTag(f.db).IndexName = "" THEN IndexName(f)
    ELSE ParseTag(f.db).IndexName

\* some field of s, or of a struct nested in s, declares unique for group g
RECURSIVE UniqueDeclared(_, _)
UniqueDeclared(s, g) ==
    \E i \in 1..Len(s) :
        /\ s[i].bson /= "-"
        /\ \/ s[i].db /= <<>> /\ ParseTag(s[i].db).Unique
                              /\ UniqueGroup(s[i]) = g
           \/ s[i].db = <<>> /\ IsNested(s[i])
                             /\ UniqueDeclared(s[i].inner, g)

\* one field tagged only unique=g and the other only index=g
MixedPair(s) ==
    /\ Len(s) = 2
    /\ \E i, j \in 1..2 :
        /\ i /= j
        /\ s[i].db = <<Token("unique", "g")>>
        /\ s[j].db = <<Token("index", "g")>>

\* C15: a group of the result of ParseModelIndexes is unique exactly when
\* some field tagged into it declares unique; for two fields sharing a group
\* of which one declares unique and the other index, in either order, the
\* group is unique and lists both fields in declaration order.
C15_UniqueIfAnyDeclares ==
    Called("ParseModelIndexes") =>
        /\ \A g \in DOMAIN mout.idx :
               mout.idx[g].Unique = UniqueDeclared(minp.s, g)
        /\ MixedPair(minp.s) =>
               /\ "g" \in DOMAIN mout.idx
               /\ mout.idx["g"] =
                      CompoundIndex(<<IndexName(minp.s[1]),
                                      IndexName(minp.s[2])>>, TRUE)

\* a field GetID accepts as the primary key
IsPk(f) == f.db /= <<>> /\ ParseTag(f.db).PrimaryKey
IsBsonID(f) == BsonIsID(f.bson)
IsCandidate(f) == IsPk(f) \/ IsBsonID(f)
Flat(s) == \A i \in 1..Len(s) : ~IsNested(s[i])
HasOwn(s) == \E i \in 1..Len(s) : IsCandidate(s[i])
FirstOwn(s) == CHOOSE i \in 1..Len(s) :
                   IsCandidate(s[i]) /\ \A j \in 1..(i - 1) : ~IsCandidate(s[j])
OwnID(s) == IF HasOwn(s) THEN s[FirstOwn(s)].val ELSE NilID

\* C16 as claimed: on a struct without embedded fields that has a pk-tagged
\* field and a different _id-tagged field GetID returns the pk-tagged field's
\* value whichever is declared first; with no pk-tagged field it returns the
\* _id-tagged field's value.
C16_AsClaimed ==
    (Called("GetID") /\ Flat(minp.s)) =>
        \A i \in 1..Len(minp.s) :
            /\ IsPk(minp.s[i]) => mout.id = minp.s[i].val
            /\ (IsBsonID(minp.s[i]) /\ \A j \in 1..Len(minp.s) : ~IsPk(minp.s[j]))
                   => mout.id = minp.s[i].val

\* C16 amended: on such a struct GetID returns the value of whichever of the
\* pk-tagged and the _id-tagged field is declared first; with no pk-tagged
\* field it returns the _id-tagged field's value, with neither it returns nil.
C16_FirstDeclaredWins ==
    (Called("GetID") /\ Flat(minp.s)) => mout.id = OwnID(minp.s)

C16_Witness ==
    /\ Called("GetID") /\ Flat(minp.s) /\ Len(minp.s) = 3
    /\ IsBsonID(minp.s[1]) /\ ~IsPk(minp.s[1])
    /\ IsPk(minp.s[3])
    /\ mout.id = "i"

\* the embedded fields of s whose struct yields a non-nil ID
Yielding(s) ==
    {i \in 1..Len(s) : ~IsCandidate(s[i]) /\ IsNested(s[i])
                           /\ HasOwn(s[i].inner)}

\* C17 as claimed: when the struct has a primary-key candidate of its own,
\* GetID returns an own field's value wherever an embedded struct with a
\* candidate is declared; the embedded value is used only when no own field
\* qualifies.
C17_AsClaimed ==
    Called("GetID") =>
        /\ HasOwn(minp.s) => mout.id = OwnID(minp.s)
        /\ (~HasOwn(minp.s) /\ Yielding(minp.s) /= {}) =>
               \E i \in Yielding(minp.s) : mout.id = OwnID(minp.s[i].inner)

\* C17 amended: GetID returns the own candidate's value when no embedded
\* struct (or non-nil pointer) declared before it yields a non-nil ID, and
\* otherwise the ID of the first such embedded struct, even an empty one; the
\* embedded value is also used when no own field qualifies.
C17_DeclarationOrder ==
    Called("GetID") =>
        LET s == minp.s
            early == {i \in Yielding(s) : HasOwn(s) => i < FirstOwn(s)}
        IN IF early /= {}
           THEN mout.id = OwnID(s[MinOf(early)].inner)
           ELSE mout.id = OwnID(s)

C17_Witness ==
    /\ Called("GetID") /\ Len(minp.s) = 2
    /\ minp.s[1].kind = "ptr" /\ HasOwn(minp.s[1].inner)
    /\ IsPk(minp.s[2])
    /\ mout.id = "j"

\* the tags that differ from tag only in the order of the tokens and in the
\* letter case of their keys
Spelled(k, alt) ==
    CASE ToLower(k) = "pk" -> IF alt THEN "PK" ELSE "pk"
      [] ToLower(k) = "unique" -> IF alt THEN "Unique" ELSE "unique"
      [] ToLower(k) = "index" -> IF alt THEN "INDEX" ELSE "index"
      [] OTHER -> k
TokenOrders(n) ==
    {p \in [1..n -> 1..n] : \A i, j \in 1..n : p[i] = p[j] => i = j}
Variants(tag) ==
    {[i \in 1..Len(tag) |-> Token(Spelled(tag[p[i]].k, alt[i]), tag[p[i]].v)] :
        p \in TokenOrders(Len(tag)), alt \in [1..Len(tag) -> BOOLEAN]}

\* C18 as claimed: every permutation of the tokens of a tag built from valid
\* tokens and every re-casing of its keys yields the same TagInfo.
C18_AsClaimed ==
    Called("ParseTag") =>
        \A t \in Variants(minp.tag) : ParseTag(t) = mout.info

\* no key occurs in the tag with two different values
SingleValued(tag) ==
    \A i, j \in 1..Len(tag) :
        ToLower(tag[i].k) = ToLower(tag[j].k) => tag[i].v = tag[j].v

\* C18 amended: for a tag built from valid tokens in which no key occurs with
\* two different values, every permutation of the tokens and every re-casing
\* of the keys yields the same TagInfo.
C18_OrderAndCaseFree ==
    (Called("ParseTag") /\ SingleValued(minp.tag)) =>
        \A t \in Variants(minp.tag) : ParseTag(t) = mout.info

C18_Witness ==
    /\ Called("ParseTag")
    /\ minp.tag = <<Token("unique", "g"), Token("PK", ""), Token("Unique", "g")>>
    /\ mout.info = TagInfo(TRUE, "g", FALSE, "", TRUE)

\* ---------------------------------------------------- Database.Indexes claims
\* C19: Database.Indexes creates only the indexes that do not exist yet: no
\* creation request is issued for keys an existing index already has, and a
\* call with the model of the preceding successful call issues none at all
C19_CreatesOnlyMissing ==
    /\ \A i \in 1..Len(ix.asked) : ix.asked[i] \notin ix.had
    /\ (ix.n = 2 /\ ix.prev = ix.model /\ ix.prevErr = "nil")
           => ix.asked = <<>>

\* ------------------------------------------------------- Pagination claims
PgMatching == {id \in coll : Matches(id, pg.f)}

\* the store answered both operations of the call, and the document count it
\* reported for an empty filter was the number of stored documents
PgStoreExact ==
    /\ pg.fail = "none"
    /\ pg.f = NoFilter => pg.total = Cardinality(coll)

\* C14: Pagination clamps page and pageSize below 1 to 1, fetches with
\* skip = (page-1)*pageSize and limit = pageSize, and returns as total the
\* number of documents matching the filter; when nothing matches it returns
\* total 0, an empty page and no error (and sends no find).  The store is
\* taken to answer without error and with an exact count.
C14_Pagination ==
    (pg.n = 1 /\ PgStoreExact) =>
        LET page == IF pg.page < 1 THEN 1 ELSE pg.page
            pageSize == IF pg.pageSize < 1 THEN 1 ELSE pg.pageSize
            rest == Cardinality(PgMatching) - (page - 1) * pageSize
        IN /\ pg.total = Cardinality(PgMatching)
           /\ pg.err = "nil"
           /\ PgMatching = {} =>
                pg.total = 0 /\ pg.list = <<>> /\ ~pg.queried
           /\ PgMatching /= {} =>
                /\ pg.queried
                /\ pg.skip = (page - 1) * pageSize
                /\ pg.limit = pageSize
                /\ Len(pg.list) = IF rest < 0 THEN 0
                                  ELSE IF rest < pageSize THEN rest
                                  ELSE pageSize
                /\ Range(pg.list) \subseteq PgMatching
                /\ \A i, j \in 1..Len(pg.list) :
                       pg.list[i] = pg.list[j] => i = j
                /\ pg.sort /= "nil" =>
                     \A i \in 1..Len(pg.list) :
                         pg.list[i] =
                             SortIds(PgMatching, pg.sort = "desc")[pg.skip + i]

\* a second page fetched with a clamped page size
C14_Witness ==
    /\ pg.n = 1 /\ PgStoreExact
    /\ pg.page = 2 /\ pg.pageSize < 1
    /\ pg.skip = 1 /\ pg.limit = 1
    /\ pg.total = 3 /\ Len(pg.list) = 1

\* -------------------------------------------------------------- Next claims
\* C20: in a chain of Next calls on a collection of string ids, each call
\* passing the _id of the last document of the previous page, no document is
\* returned twice and, once a page comes back empty, every document has been
\* returned; stated for a chain without a filter of the caller
C20_EachDocOnce ==
    (nx.calls >= 1 /\ coll \subseteq StrIds /\ nx.f = NoFilter) =>
        /\ \A i, j \in 1..Len(nx.seen) : nx.seen[i] = nx.seen[j] => i = j
        /\ nx.page = <<>> => Range(nx.seen) = coll

\* ------------------------------------------------------ tag string claims
\* the tag is the single segment  unique=<v1>=<v2>  with words v1 and v2
UniqueWithTwoEquals ==
    /\ Called("ParseTagString")
    /\ Len(minp.tag) = 5
    /\ minp.tag[1] = "unique" /\ minp.tag[2] = "=" /\ minp.tag[4] = "="
    /\ minp.tag[3] = "a" /\ minp.tag[5] = "b"

\* C22 as claimed: the value is everything after the first "=", so
\* unique=a=b yields the UniqueName a=b
C22_AsClaimed ==
    UniqueWithTwoEquals => mout.info.UniqueName = <<"a", "=", "b">>

\* C22 amended: the value is what stands between the first and the second
\* "=" of the token (trimmed): unique=a=b yields the UniqueName a, and no
\* name ParseTag returns contains "="
C22_ValueUpToSecondEq ==
    Called("ParseTagString") =>
        /\ "=" \notin Range(mout.info.UniqueName)
        /\ "=" \notin Range(mout.info.IndexName)
        /\ UniqueWithTwoEquals => mout.info.UniqueName = <<"a">>

C22_Witness ==
    UniqueWithTwoEquals /\ mout.info.Unique /\ mout.info.UniqueName = <<"a">>

NoSemicolon(seg) == ";" \notin Range(seg)
KeyNoSemicolon(seg) == ";" \notin Range(Split(seg, "=")[1])

\* the result of the loop of ParseTag over these segments alone
ParseSegments(segs) ==
    ParseTagFrom(ZeroTagInfoString,
                 [i \in 1..Len(segs) |-> SegmentToken(segs[i])])

\* C23 as claimed: every comma-separated segment of the tag that contains ";"
\* is dropped, the other segments are honoured
C23_AsClaimed ==
    Called("ParseTagString") =>
        mout.info = ParseSegments(SelectSeq(Split(minp.tag, ","), NoSemicolon))

MixedSeparators ==
    /\ Called("ParseTagString")
    /\ minp.tag = <<"unique", ",", "index", ";", "ss", ",", "pk">>

\* C23 amended: ParseTag first strips ",", " " and ";" from both ends of the
\* tag and then separates on "," only; a segment whose key part (what stands
\* before its first "=") contains ";" is dropped and the other segments are
\* honoured, a ";" inside a value staying in the name.  "unique,index;ss,pk"
\* gives unique and pk but not index, "unique;index;pk" the empty descriptor.
C23_SemicolonInKeyDropped ==
    Called("ParseTagString") =>
        /\ mout.info =
             ParseSegments(SelectSeq(Split(Trim(minp.tag, {",", " ", ";"}), ","),
                                     KeyNoSemicolon))
        /\ MixedSeparators =>
             mout.info = TagInfo(TRUE, <<>>, FALSE, <<>>, TRUE)
        /\ minp.tag = <<"unique", ";", "index", ";", "pk">> =>
             mout.info = ZeroTagInfoString

C23_Witness ==
    /\ MixedSeparators
    /\ mout.info.Unique /\ ~mout.info.Index /\ mout.info.PrimaryKey

\* ------------------------------------------------ ParseModelIndexes claims
\* C28: in the result of ParseModelIndexes on a struct without nested
\* structs (its fields have different names), no group's Fields list names
\* the same field more than once
C28_NoFieldTwice ==
    (Called("ParseModelIndexes") /\ Flat(minp.s)) =>
        \A g \in DOMAIN mout.idx :
            \A i, j \in 1..Len(mout.idx[g].Fields) :
                mout.idx[g].Fields[i] = mout.idx[g].Fields[j] => i = j

\* the value of the same struct type in which every pointer field of the
\* struct is nil (kind nil), or every one points to a struct (kind ptr)
WithPointers(s, kind) ==
    [i \in 1..Len(s) |->
        IF s[i].kind \in {"ptr", "nil"} /\ s[i].inner /= <<>>
        THEN [s[i] EXCEPT !.kind = kind] ELSE s[i]]

\* C29: ParseModelIndexes returns the same index groups for two values of
\* one struct type, one with its pointer-to-struct fields nil and one with
\* them set
C29_TypeOnly ==
    Called("ParseModelIndexes") =>
        /\ mout.idx = ParseModelIndexes(WithPointers(minp.s, "nil"))
        /\ mout.idx = ParseModelIndexes(WithPointers(minp.s, "ptr"))

\* C30: Next leaves the filter object the caller passed as it was, so a later
\* call with that object and an empty lastID returns a first page of the
\* filter the chain was begun with
C30_FilterUnchanged ==
    nx.calls >= 1 =>
        /\ nx.obj = nx.f
        /\ nx.reused =>
             nx.page \in ModelNext(coll, nx.f, nx.sort, EmptyString, nx.pageSize)

\* --------------------------------------------- further ListByCursor claims
\* C24: every document handed to cb, in every batch, matches the filter the
\* caller passed, its _id clause included
C24_DeliveredMatchFilter ==
    \A i \in 1..Len(delivered) : Matches(delivered[i], filter)

\* C25: when the call returned nil, cb returned (true, nil) every time, the
\* store reported no error and nobody wrote meanwhile, every stored document
\* was delivered, whatever the type of the _id values and the projection;
\* stated for a call without filter
C25_NilMeansAll ==
    (lpc = "done" /\ lret = "nil" /\ stopK = 0 /\ ~failed /\ writes = 0
        /\ filter = NoFilter)
        => coll \subseteq Range(delivered)

\* C26: over an unmodified collection with string _id values, cb always
\* returning (true, nil) and the store reporting no error, the call sends at
\* most floor(N/B)+1 find queries, N being the number of documents that match
\* the caller's filter and B the batch size
C26_FindsBounded ==
    (writes = 0 /\ stopK = 0 /\ ~failed /\ NumID \notin coll /\ lpc /= "idle")
        => finds <= (Cardinality({id \in coll : Matches(id, filter)}) \div limit) + 1

\* ------------------------------------------- page-partitioned List claims
\* C21 as claimed: once a callback returned an error and the flag is set, no
\* further page task is started, and List returns that first error after all
\* started tasks have finished
C21_AsClaimed ==
    /\ par.lateStarts = 0
    /\ (par.pc = "done" /\ par.flagBy /= 0) =>
          /\ Active = {}
          /\ par.ret = [kind |-> "cb", page |-> par.flagBy]

\* C21 amended: after the flag is set at most one further page task is
\* started, the one for the page the loop had already passed the flag test
\* for; List returns only when every started task has returned, and when any
\* task returned an error it returns one: the error of a callback or of a
\* failed find, never nil once the flag is set
C21_AtMostOneLateStart ==
    /\ par.lateStarts <= 1
    /\ par.pc = "done" =>
          /\ Active = {}
          /\ par.flagBy /= 0 => par.ret /= NoErr
          /\ par.ret.kind = "cb" => par.task[par.ret.page].st = "returned"

\* with concurrency 1 the task of page 2 was started after the callback of
\* page 1 had set the flag, and invoked the callback again
C21_Witness ==
    /\ par.pc = "done" /\ par.conc = 1
    /\ par.flagBy = 1 /\ par.lateStarts = 1 /\ par.lateCbs >= 1
    /\ par.task[2].st = "returned"
    /\ par.ret = [kind |-> "cb", page |-> 1]

\* ------------------------------------------- Pagination beside writers
\* C27 as claimed: the page is never longer than the page size (after its
\* clamp) nor than the total, whatever is written between the count and the
\* find; stated for a count that was exact when it was taken
C27_AsClaimed ==
    (pg.n = 1 /\ pg.total = pg.matched) =>
        /\ Len(pg.list) <= AtLeastOne(pg.pageSize)
        /\ Len(pg.list) <= pg.total

\* C27 amended: the page is never longer than the clamped page size; it is
\* no longer than the total plus the matching documents inserted between the
\* count and the find, hence no longer than the total when none was inserted
C27_BoundedByLimit ==
    pg.n = 1 =>
        /\ Len(pg.list) <= AtLeastOne(pg.pageSize)
        /\ pg.total = pg.matched => Len(pg.list) <= pg.total + pg.ins
        /\ (pg.total = pg.matched /\ pg.ins = 0) => Len(pg.list) <= pg.total

C27_Witness ==
    /\ pg.n = 1 /\ pg.total = pg.matched
    /\ pg.total = 1 /\ pg.ins = 1 /\ pg.dels = 0
    /\ Len(pg.list) = 2 /\ pg.limit = 2

==========================================================================
